---- MODULE Spec2Model ----
(***************************************************************************)
(* Coal-consumption calculator: the correction factors of                  *)
(* coal_consumption/correction_factors.py and the consumption formulas of  *)
(* coal_consumption/coal_consumption.py.                                   *)
(*                                                                         *)
(* Numbers.  The program computes on Python floats.  Here a number x is    *)
(* the integer floor(x * ONE): decimal fixed point with four places, every *)
(* product and quotient rounded down.  Decimal literals of the source      *)
(* (0.002, 2.3, 4.1868, ...) are exact in this representation.  Products   *)
(* and quotients are computed piecewise so that no intermediate value      *)
(* leaves the 32-bit range of the model checker.  NaN and the infinities   *)
(* have no representation.                                                 *)
(*                                                                         *)
(* Sums.  A float keeps a fixed number of significant digits, so a sum of  *)
(* numbers of different magnitude loses low digits and (a + b) + c may     *)
(* differ from (a + c) + b.  Fixed-point addition alone would hide this.   *)
(* Where the program accumulates running sums (the annual aggregation),    *)
(* every result is therefore also rounded down to the significant digits   *)
(* that FloatMantissa allows (RoundFloat).                                 *)
(*                                                                         *)
(* Mappings.  A dict is a function from its keys to its values.  Where it  *)
(* matters which dict object a statement writes to (a copy or the caller's *)
(* own mapping, the handler's stored defaults), the dicts live in `store`, *)
(* the sequence of the dict objects on the heap; an object is named by its *)
(* index, dict.copy() appends a new object, and an item assignment changes *)
(* the object it is applied to.  Elsewhere `store` is empty.               *)
(***************************************************************************)
EXTENDS Integers, Sequences, FiniteSets, TLC

VARIABLES op, args, ret, pc, store

vars == <<op, args, ret, pc, store>>

-----------------------------------------------------------------------------
(* Fixed-point arithmetic *)

ONE == 10 ^ 4

\* the integer n as a number
Fx(n) == n * ONE

\* the decimal literal n/d (d a power of ten dividing ONE)
Dec(n, d) == (n * ONE) \div d

Max(a, b) == IF b > a THEN b ELSE a

Min(a, b) == IF b < a THEN b ELSE a

\* a * b, rounded down; b is the factor of small magnitude
MulFix(a, b) == (a \div ONE) * b + ((a % ONE) * b) \div ONE

\* floor((q * d + r) * k1 * ... * kn / d) by long division, one multiplier a step
RECURSIVE LongDiv(_, _, _, _)
LongDiv(q, r, d, ks) ==
    IF ks = <<>> THEN q
    ELSE LongDiv(q * Head(ks) + (r * Head(ks)) \div d, (r * Head(ks)) % d, d, Tail(ks))

\* a / b for b # 0, rounded down
DivFix(a, b) ==
    LET n == IF b < 0 THEN -a ELSE a
        d == IF b < 0 THEN -b ELSE b
    IN  LongDiv(n \div d, n % d, d, <<10, 10, 10, 10>>)

-----------------------------------------------------------------------------
(* utils.py *)

safe_divide(numerator, denominator, default) ==
    IF denominator = 0 THEN default ELSE DivFix(numerator, denominator)

\* validate_numeric on a numeric value with both limits given
validate_numeric(value, min_value, max_value) ==
    Min(max_value, Max(min_value, value))

-----------------------------------------------------------------------------
(* correction_factors.py: the eight correction functions *)

\* the 1.15 - 0.2 x ratio band extended up to the rated load
load_factor_rewarding_upper_band(actual_load, base_load) ==
    LET load_ratio == safe_divide(actual_load, base_load, Fx(1))
        correction_factor ==
            IF load_ratio < Dec(3, 10) THEN Dec(14, 10) - MulFix(load_ratio, Dec(6, 10))
            ELSE IF load_ratio < Dec(5, 10) THEN Dec(125, 100) - MulFix(load_ratio, Dec(4, 10))
            ELSE IF load_ratio < Fx(1) THEN Dec(115, 100) - MulFix(load_ratio, Dec(2, 10))
            ELSE IF load_ratio < Dec(11, 10)
                 THEN Fx(1) + MulFix(load_ratio - Fx(1), Dec(5, 100))
            ELSE Dec(11, 10) + MulFix(load_ratio - Dec(11, 10), Dec(1, 10))
    IN  Max(Dec(8, 10), Min(Dec(15, 10), correction_factor))

\* the 0.5-0.7 branch taken up to and including ratio 0.7
load_factor_boundary_inclusive(actual_load, base_load) ==
    LET load_ratio == safe_divide(actual_load, base_load, Fx(1))
        correction_factor ==
            IF load_ratio < Dec(3, 10) THEN Dec(14, 10) - MulFix(load_ratio, Dec(6, 10))
            ELSE IF load_ratio < Dec(5, 10) THEN Dec(125, 100) - MulFix(load_ratio, Dec(4, 10))
            ELSE IF load_ratio <= Dec(7, 10) THEN Dec(115, 100) - MulFix(load_ratio, Dec(2, 10))
            ELSE IF load_ratio < Fx(1) THEN Fx(1)
            ELSE IF load_ratio < Dec(11, 10)
                 THEN Fx(1) + MulFix(load_ratio - Fx(1), Dec(5, 100))
            ELSE Dec(11, 10) + MulFix(load_ratio - Dec(11, 10), Dec(1, 10))
    IN  Max(Dec(8, 10), Min(Dec(15, 10), correction_factor))

calculate_load_factor_correction(actual_load, base_load) ==
    LET load_ratio == safe_divide(actual_load, base_load, Fx(1))
        correction_factor ==
            IF load_ratio < Dec(3, 10) THEN Dec(14, 10) - MulFix(load_ratio, Dec(6, 10))
            ELSE IF load_ratio < Dec(5, 10) THEN Dec(125, 100) - MulFix(load_ratio, Dec(4, 10))
            ELSE IF load_ratio < Dec(7, 10) THEN Dec(115, 100) - MulFix(load_ratio, Dec(2, 10))
            ELSE IF load_ratio < Fx(1) THEN Fx(1)
            ELSE IF load_ratio < Dec(11, 10)
                 THEN Fx(1) + MulFix(load_ratio - Fx(1), Dec(5, 100))
            ELSE Dec(11, 10) + MulFix(load_ratio - Dec(11, 10), Dec(1, 10))
    IN  Max(Dec(8, 10), Min(Dec(15, 10), correction_factor))

\* two percent per degree instead of two per mille
temperature_correction_two_percent_per_degree(actual_temp, base_temp) ==
    LET temp_diff == actual_temp - base_temp
        correction_factor == Fx(1) + MulFix(temp_diff, Dec(2, 100))
    IN  Max(Dec(95, 100), Min(Dec(105, 100), correction_factor))

\* the final clamp left out
temperature_correction_unclamped(actual_temp, base_temp) ==
    LET temp_diff == actual_temp - base_temp
    IN  Fx(1) + MulFix(temp_diff, Dec(2, 1000))

calculate_temperature_correction(actual_temp, base_temp) ==
    LET temp_diff == actual_temp - base_temp
        correction_factor == Fx(1) + MulFix(temp_diff, Dec(2, 1000))
    IN  Max(Dec(95, 100), Min(Dec(105, 100), correction_factor))

\* the ratio used where its deviation from 1 is meant
pressure_correction_ratio_not_centred(actual_pressure, base_pressure) ==
    LET pressure_ratio == safe_divide(actual_pressure, base_pressure, Fx(1))
        correction_factor == Fx(1) + MulFix(pressure_ratio, Dec(23, 10))
    IN  Max(Dec(98, 100), Min(Dec(102, 100), correction_factor))

calculate_pressure_correction(actual_pressure, base_pressure) ==
    LET pressure_ratio == safe_divide(actual_pressure, base_pressure, Fx(1))
        correction_factor == Fx(1) + MulFix(pressure_ratio - Fx(1), Dec(23, 10))
    IN  Max(Dec(98, 100), Min(Dec(102, 100), correction_factor))

calculate_humidity_correction(actual_humidity, base_humidity) ==
    LET humidity_diff == actual_humidity - base_humidity
        correction_factor == Fx(1) + MulFix(humidity_diff, Dec(1, 10000))
    IN  Max(Dec(99, 100), Min(Dec(101, 100), correction_factor))

calculate_heating_correction(heating_load, total_load) ==
    IF total_load <= 0 \/ heating_load <= 0 THEN Fx(1)
    ELSE LET heating_ratio == safe_divide(heating_load, total_load, 0)
             correction_factor == Fx(1) - MulFix(heating_ratio, Dec(3, 10))
         IN  Max(Dec(7, 10), Min(Fx(1), correction_factor))

calculate_steam_parameter_correction(actual_steam_temp, actual_steam_pressure, base_steam_temp, base_steam_pressure) ==
    LET temp_diff == actual_steam_temp - base_steam_temp
        temp_correction == Fx(1) + MulFix(temp_diff, Dec(5, 10000))
        pressure_ratio == safe_divide(actual_steam_pressure, base_steam_pressure, Fx(1))
        pressure_correction == Fx(1) + MulFix(pressure_ratio - Fx(1), Dec(2, 1000))
        correction_factor == MulFix(temp_correction, pressure_correction)
    IN  Max(Dec(97, 100), Min(Dec(103, 100), correction_factor))

calculate_fuel_correction(actual_calorific_value, base_calorific_value) ==
    LET correction_factor == safe_divide(base_calorific_value, actual_calorific_value, Fx(1))
    IN  Max(Dec(8, 10), Min(Dec(12, 10), correction_factor))

calculate_sea_temperature_correction(actual_sea_temp, base_sea_temp) ==
    LET sea_temp_diff == actual_sea_temp - base_sea_temp
        correction_factor == Fx(1) + MulFix(sea_temp_diff, Dec(15, 10000))
    IN  Max(Dec(98, 100), Min(Dec(102, 100), correction_factor))

-----------------------------------------------------------------------------
(* Direct calls of the correction functions with scalar arguments *)

MaxStep == 4

\* percentages, temperatures, pressures and heat values a caller passes:
\* zero, negative, ordinary and extreme
LoadVals ==
    {Fx(10 * i) : i \in (0 - MaxStep)..(3 * MaxStep)} \cup {Fx(105), Fx(500), Fx(0 - 1000)}

TempVals == {Fx(5 * i) : i \in (0 - 2 * MaxStep)..(3 * MaxStep)} \cup {Fx(1000), Fx(0 - 1000)}

PressureVals ==
    {Dec(i, 10) : i \in (167 - MaxStep)..(167 + MaxStep)} \cup {Fx(0 - 5), 0, Fx(10), Fx(25), Fx(1000)}

HeatVals == {Fx(1000 * i) : i \in (0 - 1)..(2 * MaxStep)} \cup {Fx(4854), Fx(500), Fx(20000)}

SteamTempVals == {Fx(540 + 20 * i) : i \in (0 - MaxStep)..MaxStep} \cup {0}

SteamPressureVals == {0, Fx(0 - 5), Fx(10), Dec(167, 10), Fx(25)}

PairFunctions ==
    {"load_factor", "temperature", "pressure", "humidity", "heating", "fuel", "sea_temperature"}

ValsOf(f) ==
    CASE f = "load_factor" -> LoadVals
      [] f = "temperature" -> TempVals
      [] f = "pressure" -> PressureVals
      [] f = "humidity" -> LoadVals
      [] f = "heating" -> LoadVals
      [] f = "fuel" -> HeatVals
      [] f = "sea_temperature" -> TempVals

InitFactors ==
    /\ pc = "call"
    /\ ret = <<>>
    /\ store = <<>>
    /\ \/ \E f \in PairFunctions : \E a, b \in ValsOf(f) :
            /\ op = f
            /\ args = <<a, b>>
       \/ \E t1, t2 \in SteamTempVals : \E p1, p2 \in SteamPressureVals :
            /\ op = "steam_parameter"
            /\ args = <<t1, p1, t2, p2>>

Return(f, value) ==
    /\ pc = "call"
    /\ op = f
    /\ ret' = value
    /\ pc' = "done"
    /\ UNCHANGED <<op, args, store>>

LoadFactorCorrection ==
    Return("load_factor", calculate_load_factor_correction(args[1], args[2]))

TemperatureCorrection ==
    Return("temperature", calculate_temperature_correction(args[1], args[2]))

PressureCorrection ==
    Return("pressure", calculate_pressure_correction(args[1], args[2]))

HumidityCorrection ==
    Return("humidity", calculate_humidity_correction(args[1], args[2]))

HeatingCorrection ==
    Return("heating", calculate_heating_correction(args[1], args[2]))

SteamParameterCorrection ==
    Return("steam_parameter",
           calculate_steam_parameter_correction(args[1], args[2], args[3], args[4]))

FuelCorrection ==
    Return("fuel", calculate_fuel_correction(args[1], args[2]))

SeaTemperatureCorrection ==
    Return("sea_temperature", calculate_sea_temperature_correction(args[1], args[2]))

-----------------------------------------------------------------------------
(* coal_consumption.py: the basic consumption *)

\* n / x for an integer n and a number x > 0, rounded down
IntDivFix(n, x) ==
    LongDiv(n \div x, n % x, x, <<5, 2, 5, 2, 5, 2, 5, 2, 5, 2, 5, 2, 5, 2, 5, 2>>)

\* the final clamp left out
basic_coal_consumption_unclamped(electricity_output, coal_calorific_value, efficiency) ==
    LET eff == validate_numeric(efficiency, Dec(5, 10), Fx(1))
        heat == validate_numeric(coal_calorific_value, Fx(1000), Fx(8000))
        coal_calorific_value_kj == MulFix(heat, Dec(41868, 10000))
    IN  IF coal_calorific_value_kj <= 0 THEN 0
        ELSE IntDivFix(3600 * 1000, MulFix(coal_calorific_value_kj, eff))

\* the efficiency multiplied in where it is meant to divide
basic_coal_consumption_times_efficiency(electricity_output, coal_calorific_value, efficiency) ==
    LET eff == validate_numeric(efficiency, Dec(5, 10), Fx(1))
        heat == validate_numeric(coal_calorific_value, Fx(1000), Fx(8000))
        coal_calorific_value_kj == MulFix(heat, Dec(41868, 10000))
    IN  IF coal_calorific_value_kj <= 0 THEN 0
        ELSE LET coal_consumption_g == MulFix(IntDivFix(3600 * 1000, coal_calorific_value_kj), eff)
             IN  Max(Fx(80), Min(Fx(250), coal_consumption_g))

calculate_basic_coal_consumption(electricity_output, coal_calorific_value, efficiency) ==
    LET eff == validate_numeric(efficiency, Dec(5, 10), Fx(1))
        heat == validate_numeric(coal_calorific_value, Fx(1000), Fx(8000))
        coal_calorific_value_kj == MulFix(heat, Dec(41868, 10000))
    IN  IF coal_calorific_value_kj <= 0 THEN 0
        ELSE LET coal_consumption_g == IntDivFix(3600 * 1000, MulFix(coal_calorific_value_kj, eff))
             IN  Max(Fx(80), Min(Fx(250), coal_consumption_g))

ElectricityVals == {0, Fx(1), Fx(500), Fx(1000), Fx(0 - 100)}

EfficiencyVals == {Dec(5 * i, 100) : i \in 0..(6 * MaxStep)} \cup {Fx(0 - 1), Fx(10)}

BasicHeatVals == HeatVals \cup {Fx(500 * i) : i \in 1..(4 * MaxStep)}

InitBasic ==
    /\ pc = "call"
    /\ ret = <<>>
    /\ store = <<>>
    /\ op = "basic_coal_consumption"
    /\ \E e \in ElectricityVals : \E h \in BasicHeatVals : \E f \in EfficiencyVals :
            args = <<e, h, f>>

BasicCoalConsumption ==
    Return("basic_coal_consumption",
           calculate_basic_coal_consumption(args[1], args[2], args[3]))

NextBasic == BasicCoalConsumption

SpecBasic == InitBasic /\ [][NextBasic]_vars

NextFactors ==
    \/ LoadFactorCorrection
    \/ TemperatureCorrection
    \/ PressureCorrection
    \/ HumidityCorrection
    \/ HeatingCorrection
    \/ SteamParameterCorrection
    \/ FuelCorrection
    \/ SeaTemperatureCorrection

SpecFactors == InitFactors /\ [][NextFactors]_vars

-----------------------------------------------------------------------------
(* correction_factors.py: the comprehensive correction *)

\* dict.get(key, default); a dict is a function whose domain is its key set
Get(m, k, default) == IF k \in DOMAIN m THEN m[k] ELSE default

\* the arguments each factor is called with, read from params with fallbacks
temperature_of(params) ==
    calculate_temperature_correction(
        Get(params, "actual_temperature", Get(params, "base_temperature", Fx(25))),
        Get(params, "base_temperature", Fx(25)))

pressure_of(params) ==
    calculate_pressure_correction(
        Get(params, "actual_pressure", Get(params, "base_pressure", Dec(167, 10))),
        Get(params, "base_pressure", Dec(167, 10)))

humidity_of(params) ==
    calculate_humidity_correction(
        Get(params, "actual_humidity", Get(params, "base_humidity", Fx(60))),
        Get(params, "base_humidity", Fx(60)))

heating_of(params) ==
    calculate_heating_correction(
        Get(params, "heating_load", 0),
        Get(params, "total_load", Get(params, "base_load", Fx(100))))

steam_parameter_of(params) ==
    calculate_steam_parameter_correction(
        Get(params, "actual_steam_temp", Fx(540)),
        Get(params, "actual_steam_pressure", Get(params, "base_pressure", Dec(167, 10))),
        Get(params, "base_steam_temp", Fx(540)),
        Get(params, "base_steam_pressure", Get(params, "base_pressure", Dec(167, 10))))

fuel_of(params) ==
    calculate_fuel_correction(
        Get(params, "actual_calorific_value", Get(params, "coal_calorific_value", Fx(4854))),
        Get(params, "coal_calorific_value", Fx(4854)))

sea_temperature_of(params) ==
    calculate_sea_temperature_correction(
        Get(params, "actual_sea_temperature", Get(params, "base_sea_temperature", Fx(19))),
        Get(params, "base_sea_temperature", Fx(19)))

load_factor_of(params) ==
    calculate_load_factor_correction(
        Get(params, "actual_load", Get(params, "base_load", Fx(100))),
        Get(params, "base_load", Fx(100)))

\* the keys of the corrections dict in insertion order
FactorOrder ==
    <<"load_factor", "temperature", "pressure", "humidity", "heating",
      "steam_parameter", "fuel", "sea_temperature">>

\* acc *= corrections[key] for the keys of the sequence that are not skipped
RECURSIVE ProductOver(_, _, _, _)
ProductOver(keys, corrections, skip, acc) ==
    IF keys = <<>> THEN acc
    ELSE ProductOver(Tail(keys), corrections, skip,
                     IF Head(keys) \in skip THEN acc
                     ELSE MulFix(acc, corrections[Head(keys)]))

\* the fuel correction gated by the heating flag
comprehensive_correction_fuel_gated_by_heating(params, calculation_settings) ==
    LET corrections ==
            [load_factor |-> load_factor_of(params),
             temperature |->
                 IF Get(calculation_settings, "enable_temperature_correction", TRUE)
                 THEN temperature_of(params) ELSE Fx(1),
             pressure |->
                 IF Get(calculation_settings, "enable_pressure_correction", TRUE)
                 THEN pressure_of(params) ELSE Fx(1),
             humidity |->
                 IF Get(calculation_settings, "enable_humidity_correction", TRUE)
                 THEN humidity_of(params) ELSE Fx(1),
             heating |->
                 IF Get(calculation_settings, "enable_heating_correction", TRUE)
                 THEN heating_of(params) ELSE Fx(1),
             steam_parameter |->
                 IF Get(calculation_settings, "enable_steam_parameter_correction", TRUE)
                 THEN steam_parameter_of(params) ELSE Fx(1),
             fuel |->
                 IF Get(calculation_settings, "enable_heating_correction", TRUE)
                 THEN fuel_of(params) ELSE Fx(1),
             sea_temperature |->
                 IF /\ Get(calculation_settings, "enable_sea_temperature_correction", FALSE)
                    /\ "base_sea_temperature" \in DOMAIN params
                 THEN sea_temperature_of(params) ELSE Fx(1)]
        comprehensive_correction == ProductOver(FactorOrder, corrections, {"comprehensive"}, Fx(1))
    IN  [k \in DOMAIN corrections \cup {"comprehensive"} |->
            IF k = "comprehensive"
            THEN Max(Dec(7, 10), Min(Dec(13, 10), comprehensive_correction))
            ELSE corrections[k]]

\* sea temperature enabled by default and computed without a baseline in params
comprehensive_correction_sea_without_base(params, calculation_settings) ==
    LET corrections ==
            [load_factor |-> load_factor_of(params),
             temperature |->
                 IF Get(calculation_settings, "enable_temperature_correction", TRUE)
                 THEN temperature_of(params) ELSE Fx(1),
             pressure |->
                 IF Get(calculation_settings, "enable_pressure_correction", TRUE)
                 THEN pressure_of(params) ELSE Fx(1),
             humidity |->
                 IF Get(calculation_settings, "enable_humidity_correction", TRUE)
                 THEN humidity_of(params) ELSE Fx(1),
             heating |->
                 IF Get(calculation_settings, "enable_heating_correction", TRUE)
                 THEN heating_of(params) ELSE Fx(1),
             steam_parameter |->
                 IF Get(calculation_settings, "enable_steam_parameter_correction", TRUE)
                 THEN steam_parameter_of(params) ELSE Fx(1),
             fuel |->
                 IF Get(calculation_settings, "enable_fuel_correction", TRUE)
                 THEN fuel_of(params) ELSE Fx(1),
             sea_temperature |->
                 IF Get(calculation_settings, "enable_sea_temperature_correction", TRUE)
                 THEN sea_temperature_of(params) ELSE Fx(1)]
        comprehensive_correction == ProductOver(FactorOrder, corrections, {"comprehensive"}, Fx(1))
    IN  [k \in DOMAIN corrections \cup {"comprehensive"} |->
            IF k = "comprehensive"
            THEN Max(Dec(7, 10), Min(Dec(13, 10), comprehensive_correction))
            ELSE corrections[k]]

\* the clamp of the product left out
comprehensive_correction_unclamped(params, calculation_settings) ==
    LET corrections ==
            [load_factor |-> load_factor_of(params),
             temperature |->
                 IF Get(calculation_settings, "enable_temperature_correction", TRUE)
                 THEN temperature_of(params) ELSE Fx(1),
             pressure |->
                 IF Get(calculation_settings, "enable_pressure_correction", TRUE)
                 THEN pressure_of(params) ELSE Fx(1),
             humidity |->
                 IF Get(calculation_settings, "enable_humidity_correction", TRUE)
                 THEN humidity_of(params) ELSE Fx(1),
             heating |->
                 IF Get(calculation_settings, "enable_heating_correction", TRUE)
                 THEN heating_of(params) ELSE Fx(1),
             steam_parameter |->
                 IF Get(calculation_settings, "enable_steam_parameter_correction", TRUE)
                 THEN steam_parameter_of(params) ELSE Fx(1),
             fuel |->
                 IF Get(calculation_settings, "enable_fuel_correction", TRUE)
                 THEN fuel_of(params) ELSE Fx(1),
             sea_temperature |->
                 IF /\ Get(calculation_settings, "enable_sea_temperature_correction", FALSE)
                    /\ "base_sea_temperature" \in DOMAIN params
                 THEN sea_temperature_of(params) ELSE Fx(1)]
        comprehensive_correction == ProductOver(FactorOrder, corrections, {"comprehensive"}, Fx(1))
    IN  [k \in DOMAIN corrections \cup {"comprehensive"} |->
            IF k = "comprehensive" THEN comprehensive_correction ELSE corrections[k]]

calculate_comprehensive_correction(params, calculation_settings) ==
    LET corrections ==
            [load_factor |-> load_factor_of(params),
             temperature |->
                 IF Get(calculation_settings, "enable_temperature_correction", TRUE)
                 THEN temperature_of(params) ELSE Fx(1),
             pressure |->
                 IF Get(calculation_settings, "enable_pressure_correction", TRUE)
                 THEN pressure_of(params) ELSE Fx(1),
             humidity |->
                 IF Get(calculation_settings, "enable_humidity_correction", TRUE)
                 THEN humidity_of(params) ELSE Fx(1),
             heating |->
                 IF Get(calculation_settings, "enable_heating_correction", TRUE)
                 THEN heating_of(params) ELSE Fx(1),
             steam_parameter |->
                 IF Get(calculation_settings, "enable_steam_parameter_correction", TRUE)
                 THEN steam_parameter_of(params) ELSE Fx(1),
             fuel |->
                 IF Get(calculation_settings, "enable_fuel_correction", TRUE)
                 THEN fuel_of(params) ELSE Fx(1),
             sea_temperature |->
                 IF /\ Get(calculation_settings, "enable_sea_temperature_correction", FALSE)
                    /\ "base_sea_temperature" \in DOMAIN params
                 THEN sea_temperature_of(params) ELSE Fx(1)]
        comprehensive_correction == ProductOver(FactorOrder, corrections, {"comprehensive"}, Fx(1))
    IN  [k \in DOMAIN corrections \cup {"comprehensive"} |->
            IF k = "comprehensive"
            THEN Max(Dec(7, 10), Min(Dec(13, 10), comprehensive_correction))
            ELSE corrections[k]]

-----------------------------------------------------------------------------
(* coal_consumption.py: the benchmark consumption *)

\* the basic consumption scaled by the total factor instead of the comprehensive one
benchmark_scaled_by_total_factor(params, calculation_settings) ==
    LET electricity_output == Get(params, "electricity_output", Fx(1000))
        coal_calorific_value == Get(params, "coal_calorific_value", Fx(4854))
        efficiency == Get(params, "efficiency", Dec(9, 10))
        corrections == calculate_comprehensive_correction(params, calculation_settings)
        basic_coal_consumption ==
            calculate_basic_coal_consumption(electricity_output, coal_calorific_value, efficiency)
        total_factor ==
            ProductOver(FactorOrder \o <<"comprehensive">>, corrections,
                        {"comprehensive", "heating"}, Fx(1))
        benchmark_coal_consumption == MulFix(basic_coal_consumption, total_factor)
        results ==
            [basic_coal_consumption |-> basic_coal_consumption,
             benchmark_coal_consumption |-> benchmark_coal_consumption,
             correction_factor |-> corrections["comprehensive"],
             total_correction_factor |-> total_factor]
    IN  corrections @@ results

calculate_benchmark_coal_consumption(params, calculation_settings) ==
    LET electricity_output == Get(params, "electricity_output", Fx(1000))
        coal_calorific_value == Get(params, "coal_calorific_value", Fx(4854))
        efficiency == Get(params, "efficiency", Dec(9, 10))
        corrections == calculate_comprehensive_correction(params, calculation_settings)
        basic_coal_consumption ==
            calculate_basic_coal_consumption(electricity_output, coal_calorific_value, efficiency)
        benchmark_coal_consumption == MulFix(basic_coal_consumption, corrections["comprehensive"])
        total_factor ==
            ProductOver(FactorOrder \o <<"comprehensive">>, corrections,
                        {"comprehensive", "heating"}, Fx(1))
        results ==
            [basic_coal_consumption |-> basic_coal_consumption,
             benchmark_coal_consumption |-> benchmark_coal_consumption,
             correction_factor |-> corrections["comprehensive"],
             total_correction_factor |-> total_factor]
    IN  corrections @@ results

-----------------------------------------------------------------------------
(* Calls with a parameter set and calculation settings *)

\* entries (parameters and settings together) a caller supplies in one call
MaxSupplied == 3

\* two values a caller may supply for each parameter the calculation reads
ParamChoices ==
    [actual_load |-> <<Fx(20), Fx(120)>>,
     base_load |-> <<0, Fx(50)>>,
     actual_temperature |-> <<Fx(40), Fx(0 - 20)>>,
     base_temperature |-> <<0, Fx(30)>>,
     actual_pressure |-> <<Dec(168, 10), Fx(10)>>,
     base_pressure |-> <<0, Fx(17)>>,
     actual_humidity |-> <<Fx(80), Fx(10)>>,
     base_humidity |-> <<0, Fx(100)>>,
     heating_load |-> <<Fx(30), Fx(100)>>,
     total_load |-> <<0, Fx(80)>>,
     actual_steam_temp |-> <<Fx(560), Fx(500)>>,
     base_steam_temp |-> <<Fx(520), Fx(600)>>,
     actual_steam_pressure |-> <<Fx(20), Fx(10)>>,
     base_steam_pressure |-> <<0, Fx(25)>>,
     actual_calorific_value |-> <<Fx(4500), 0>>,
     coal_calorific_value |-> <<Fx(5500), Fx(500)>>,
     base_sea_temperature |-> <<Fx(19), Fx(10)>>,
     actual_sea_temperature |-> <<Fx(25), Fx(40)>>,
     electricity_output |-> <<0, Fx(500)>>,
     efficiency |-> <<Dec(3, 10), Dec(85, 100)>>]

ParamKeys == DOMAIN ParamChoices

SettingKeys ==
    {"enable_temperature_correction", "enable_pressure_correction",
     "enable_humidity_correction", "enable_heating_correction",
     "enable_steam_parameter_correction", "enable_fuel_correction",
     "enable_sea_temperature_correction"}

\* the subsets of S with at most n elements
RECURSIVE SubsetsUpTo(_, _)
SubsetsUpTo(S, n) ==
    IF n = 0 THEN {{}}
    ELSE LET smaller == SubsetsUpTo(S, n - 1)
         IN  smaller \cup {T \cup {x} : T \in smaller, x \in S}

InitBenchmark ==
    /\ pc = "call"
    /\ ret = <<>>
    /\ store = <<>>
    /\ op \in {"comprehensive_correction", "benchmark_coal_consumption"}
    /\ \E K \in SubsetsUpTo(ParamKeys \cup SettingKeys, MaxSupplied) :
         \E choice \in [K -> 1..2] :
            args = <<[k \in K \cap ParamKeys |-> ParamChoices[k][choice[k]]],
                     [k \in K \cap SettingKeys |-> choice[k] = 1]>>

ComprehensiveCorrection ==
    Return("comprehensive_correction", calculate_comprehensive_correction(args[1], args[2]))

BenchmarkCoalConsumption ==
    Return("benchmark_coal_consumption", calculate_benchmark_coal_consumption(args[1], args[2]))

NextBenchmark ==
    \/ ComprehensiveCorrection
    \/ BenchmarkCoalConsumption

SpecBenchmark == InitBenchmark /\ [][NextBenchmark]_vars

-----------------------------------------------------------------------------
(* coal_consumption.py: the heating impact *)

\* a call that ends in an exception returns this in place of a result
Raise(exception) == [raised |-> exception]

Raised(result) == "raised" \in DOMAIN result

\* m with m[k] = v, as after the assignment m[k] = v on a copy of m
Put(m, k, v) == [x \in DOMAIN m \cup {k} |-> IF x = k THEN v ELSE m[x]]

\* (h * 1000000) / x for numbers h and x # 0, rounded down
MillionDiv(h, x) ==
    LET n == IF x < 0 THEN -h ELSE h
        d == IF x < 0 THEN -x ELSE x
    IN  LongDiv(n \div d, n % d, d,
                <<5, 2, 5, 2, 5, 2, 5, 2, 5, 2, 5, 2, 5, 2, 5, 2, 5, 2, 5, 2>>)

\* the early return for heating_output == 0 left out
heating_impact_without_zero_branch(params) ==
    LET electricity_output == Get(params, "electricity_output", Fx(1000))
        heating_output == Get(params, "heating_output", Fx(500))
        coal_calorific_value == Get(params, "coal_calorific_value", Fx(4854))
        efficiency == Get(params, "efficiency", Dec(9, 10))
        power_only_coal ==
            calculate_basic_coal_consumption(electricity_output, coal_calorific_value, efficiency)
        coal_calorific_value_kj == MulFix(coal_calorific_value, Dec(41868, 10000))
        divisor == MulFix(coal_calorific_value_kj, efficiency)
        heat_to_power_ratio ==
            safe_divide(heating_output, MulFix(electricity_output, Dec(36, 10)), 0)
        combined ==
            Max(Fx(80), Min(Fx(200),
                MulFix(power_only_coal, Fx(1) - MulFix(heat_to_power_ratio, Dec(4, 10)))))
    IN  IF divisor = 0 THEN Raise("ZeroDivisionError")
        ELSE [heating_coal_consumption |-> MillionDiv(heating_output, divisor),
              combined_coal_consumption |-> combined,
              heating_impact |-> combined - power_only_coal]

calculate_heating_impact(params) ==
    LET electricity_output == Get(params, "electricity_output", Fx(1000))
        heating_output == Get(params, "heating_output", Fx(500))
        coal_calorific_value == Get(params, "coal_calorific_value", Fx(4854))
        efficiency == Get(params, "efficiency", Dec(9, 10))
        power_only_coal ==
            calculate_basic_coal_consumption(electricity_output, coal_calorific_value, efficiency)
        coal_calorific_value_kj == MulFix(coal_calorific_value, Dec(41868, 10000))
        divisor == MulFix(coal_calorific_value_kj, efficiency)
        heat_to_power_ratio ==
            safe_divide(heating_output, MulFix(electricity_output, Dec(36, 10)), 0)
        combined ==
            Max(Fx(80), Min(Fx(200),
                MulFix(power_only_coal, Fx(1) - MulFix(heat_to_power_ratio, Dec(4, 10)))))
    IN  IF heating_output = 0
        THEN [heating_coal_consumption |-> 0,
              combined_coal_consumption |-> power_only_coal,
              heating_impact |-> 0]
        ELSE IF divisor = 0 THEN Raise("ZeroDivisionError")
        ELSE [heating_coal_consumption |-> MillionDiv(heating_output, divisor),
              combined_coal_consumption |-> combined,
              heating_impact |-> combined - power_only_coal]

calculate_coal_consumption_with_heating(params, calculation_settings) ==
    LET power_only_params == Put(Put(params, "heating_output", 0), "heating_load", 0)
        power_only_results ==
            calculate_benchmark_coal_consumption(power_only_params, calculation_settings)
        heating_results == calculate_heating_impact(params)
        denominator ==
            Get(params, "heating_output", 0)
                + MulFix(Get(params, "electricity_output", Fx(1)), Dec(36, 10))
        heating_ratio == safe_divide(Get(params, "heating_output", 0), denominator, 0)
    IN  IF Raised(heating_results) THEN heating_results
        ELSE [power_only_coal_consumption |-> power_only_results["benchmark_coal_consumption"],
              heating_coal_consumption |-> heating_results["heating_coal_consumption"],
              combined_coal_consumption |-> heating_results["combined_coal_consumption"],
              heating_impact |-> heating_results["heating_impact"],
              heating_ratio |-> heating_ratio]

\* values a caller may supply for the parameters the heating calculation reads
HeatingChoices ==
    [electricity_output |-> {0, Fx(100), Fx(500), Fx(1000), Fx(0 - 100)},
     heating_output |-> {0, Fx(100), Fx(500), Fx(1000), Fx(0 - 200)},
     coal_calorific_value |-> {0, Fx(3000), Fx(4854), Fx(9000)},
     efficiency |-> {0, Dec(5, 10), Dec(9, 10), Fx(0 - 1)},
     heating_load |-> {Fx(30)}]

\* the dicts that hold some of the keys of choices, each with one of its values
DictsOver(choices) ==
    UNION {{f \in [K -> UNION {choices[k] : k \in K}] : \A k \in K : f[k] \in choices[k]} :
           K \in SUBSET DOMAIN choices}

InitHeating ==
    /\ pc = "call"
    /\ ret = <<>>
    /\ store = <<>>
    /\ op \in {"heating_impact", "coal_consumption_with_heating"}
    /\ \E params \in DictsOver(HeatingChoices) :
         \E settings \in {<<>>, [enable_temperature_correction |-> FALSE]} :
            args = <<params, settings>>

HeatingImpact ==
    Return("heating_impact", calculate_heating_impact(args[1]))

CoalConsumptionWithHeating ==
    Return("coal_consumption_with_heating",
           calculate_coal_consumption_with_heating(args[1], args[2]))

NextHeating ==
    \/ HeatingImpact
    \/ CoalConsumptionWithHeating

SpecHeating == InitHeating /\ [][NextHeating]_vars

-----------------------------------------------------------------------------
(* coal_consumption.py: the annual aggregation *)

\* a float result keeps the digits of a mantissa below this value
FloatMantissa == 10 ^ 5

Abs(x) == IF x < 0 THEN -x ELSE x

\* the weight of the last digit a float of the magnitude of x keeps
RECURSIVE Ulp(_)
Ulp(x) == IF Abs(x) < FloatMantissa THEN 1 ELSE 10 * Ulp(Abs(x) \div 10)

RoundFloat(x) == (x \div Ulp(x)) * Ulp(x)

\* a * b, rounded down, for factors of any magnitude
MulWide(a, b) ==
    LET qa == a \div ONE
        ra == a % ONE
        qb == b \div ONE
        rb == b % ONE
    IN  qa * qb * ONE + qa * rb + ra * qb + (ra * rb) \div ONE

FAdd(a, b) == RoundFloat(a + b)

FMul(a, b) == RoundFloat(MulWide(a, b))

FDiv(a, b) == RoundFloat(DivFix(a, b))

\* the coal mass of one month: benchmark * electricity / 1000
MonthCoal(benchmark, electricity) == FDiv(FMul(benchmark, electricity), Fx(1000))

\* the totals after the first i months: <<total_electricity, total_coal>>
RECURSIVE AnnualTotals(_, _, _)
AnnualTotals(monthly_params, monthly_results, i) ==
    IF i = 0 THEN <<0, 0>>
    ELSE LET before == AnnualTotals(monthly_params, monthly_results, i - 1)
             electricity == Get(monthly_params[i], "electricity_output", 0)
         IN  <<FAdd(before[1], electricity),
               FAdd(before[2],
                    MonthCoal(monthly_results[i]["benchmark_coal_consumption"], electricity))>>

\* each month's coal weighted by the electricity accumulated so far
RECURSIVE AnnualTotalsCumulative(_, _, _)
AnnualTotalsCumulative(monthly_params, monthly_results, i) ==
    IF i = 0 THEN <<0, 0>>
    ELSE LET before == AnnualTotalsCumulative(monthly_params, monthly_results, i - 1)
             electricity == Get(monthly_params[i], "electricity_output", 0)
             total_electricity == FAdd(before[1], electricity)
         IN  <<total_electricity,
               FAdd(before[2],
                    MonthCoal(monthly_results[i]["benchmark_coal_consumption"],
                              total_electricity))>>

\* the sum of the benchmark rates of the first i months
RECURSIVE RateSum(_, _)
RateSum(monthly_results, i) ==
    IF i = 0 THEN 0
    ELSE FAdd(RateSum(monthly_results, i - 1), monthly_results[i]["benchmark_coal_consumption"])

\* the running coal total weighted by the accumulated electricity
annual_coal_consumption_cumulative_weight(monthly_params, calculation_settings) ==
    LET monthly_results ==
            [i \in 1..Len(monthly_params) |->
                calculate_benchmark_coal_consumption(monthly_params[i], calculation_settings)]
        totals == AnnualTotalsCumulative(monthly_params, monthly_results, Len(monthly_params))
        total_electricity == totals[1]
        total_coal == totals[2]
    IN  [monthly_results |-> monthly_results,
         annual_electricity_output |-> total_electricity,
         annual_coal_consumption |-> total_coal,
         annual_benchmark_coal_consumption |->
             IF total_electricity > 0
             THEN FDiv(FMul(total_coal, Fx(1000)), total_electricity)
             ELSE 0]

\* the annual rate taken as the simple mean of the monthly rates
annual_coal_consumption_simple_mean(monthly_params, calculation_settings) ==
    LET monthly_results ==
            [i \in 1..Len(monthly_params) |->
                calculate_benchmark_coal_consumption(monthly_params[i], calculation_settings)]
        totals == AnnualTotals(monthly_params, monthly_results, Len(monthly_params))
        total_electricity == totals[1]
        total_coal == totals[2]
    IN  [monthly_results |-> monthly_results,
         annual_electricity_output |-> total_electricity,
         annual_coal_consumption |-> total_coal,
         annual_benchmark_coal_consumption |->
             IF total_electricity > 0
             THEN FDiv(RateSum(monthly_results, Len(monthly_params)), Fx(Len(monthly_params)))
             ELSE 0]

calculate_annual_coal_consumption(monthly_params, calculation_settings) ==
    LET monthly_results ==
            [i \in 1..Len(monthly_params) |->
                calculate_benchmark_coal_consumption(monthly_params[i], calculation_settings)]
        totals == AnnualTotals(monthly_params, monthly_results, Len(monthly_params))
        total_electricity == totals[1]
        total_coal == totals[2]
    IN  [monthly_results |-> monthly_results,
         annual_electricity_output |-> total_electricity,
         annual_coal_consumption |-> total_coal,
         annual_benchmark_coal_consumption |->
             IF total_electricity > 0
             THEN FDiv(FMul(total_coal, Fx(1000)), total_electricity)
             ELSE 0]

\* months a caller passes in one call
MaxMonths == 3

\* parameter sets of single months
MonthChoices ==
    {<<>>,
     [electricity_output |-> 0],
     [electricity_output |-> Fx(25)],
     [electricity_output |-> Fx(100)],
     [electricity_output |-> Fx(50), actual_load |-> Fx(20)],
     [electricity_output |-> Fx(30), coal_calorific_value |-> Fx(3000), actual_load |-> Fx(120)],
     [electricity_output |-> Fx(0 - 50), heating_load |-> Fx(30)]}

SeqsUpTo(S, n) == UNION {[1..k -> S] : k \in 0..n}

InitAnnual ==
    /\ pc = "call"
    /\ ret = <<>>
    /\ store = <<>>
    /\ op = "annual_coal_consumption"
    /\ \E monthly_params \in SeqsUpTo(MonthChoices, MaxMonths) :
         \E settings \in {<<>>, [enable_heating_correction |-> FALSE]} :
            args = <<monthly_params, settings>>

AnnualCoalConsumption ==
    Return("annual_coal_consumption", calculate_annual_coal_consumption(args[1], args[2]))

NextAnnual == AnnualCoalConsumption

SpecAnnual == InitAnnual /\ [][NextAnnual]_vars

-----------------------------------------------------------------------------
(* coal_consumption.py: the sensitivity sweep *)

\* the points of a sweep of `steps` values that starts at min_value
SweepPoints(params, calculation_settings, variable, min_value, step_size, steps) ==
    [k \in 1..steps |->
        LET value == FAdd(min_value, FMul(Fx(k - 1), step_size))
            test_params == Put(params, variable, value)
            result == calculate_benchmark_coal_consumption(test_params, calculation_settings)
        IN  <<value, result["benchmark_coal_consumption"]>>]

\* the step taken as the range divided by the number of points
sensitivity_step_over_steps(params, calculation_settings, variable, min_value, max_value, steps) ==
    LET n == IF steps < 2 THEN 2 ELSE steps
        step_size == RoundFloat(safe_divide(max_value - min_value, Fx(n), 0))
    IN  SweepPoints(params, calculation_settings, variable, min_value, step_size, n)

\* the step taken from the size of the range, without its sign
sensitivity_unsigned_step(params, calculation_settings, variable, min_value, max_value, steps) ==
    LET n == IF steps < 2 THEN 2 ELSE steps
        step_size == RoundFloat(safe_divide(Abs(max_value - min_value), Fx(n - 1), 0))
    IN  SweepPoints(params, calculation_settings, variable, min_value, step_size, n)

calculate_coal_consumption_sensitivity(params, calculation_settings, variable, min_value, max_value, steps) ==
    LET n == IF steps < 2 THEN 2 ELSE steps
        step_size == RoundFloat(safe_divide(max_value - min_value, Fx(n - 1), 0))
    IN  SweepPoints(params, calculation_settings, variable, min_value, step_size, n)

\* the largest number of points a caller asks for
MaxSweepSteps == 4

\* the ends of a sweep: ordinary, negative, equal, and closer together than
\* the float grid at their magnitude resolves
SweepVals == {0, Fx(1), Fx(20), Fx(100), Dec(73, 10), Fx(0 - 5), Dec(10001, 100), Dec(10002, 100)}

InitSensitivity ==
    /\ pc = "call"
    /\ ret = <<>>
    /\ store = <<>>
    /\ op = "coal_consumption_sensitivity"
    /\ \E params \in {<<>>, [base_load |-> Fx(50)]} :
         \E variable \in {"actual_load", "actual_temperature"} :
            \E min_value \in SweepVals :
               \E max_value \in SweepVals :
                  \E steps \in (0 - 1)..MaxSweepSteps :
                     args = <<params, <<>>, variable, min_value, max_value, steps>>

CoalConsumptionSensitivity ==
    Return("coal_consumption_sensitivity",
           calculate_coal_consumption_sensitivity(args[1], args[2], args[3], args[4], args[5], args[6]))

NextSensitivity == CoalConsumptionSensitivity

SpecSensitivity == InitSensitivity /\ [][NextSensitivity]_vars

-----------------------------------------------------------------------------
(* coal_consumption.py: the comparison with benchmark data *)

\* a comparison entry for every common key, a zero benchmark value included
comparison_with_benchmark_without_skip(benchmark_data, monthly_data) ==
    [benchmark |-> benchmark_data,
     monthly_comparisons |->
        [month_name \in DOMAIN monthly_data |->
            LET month_data == monthly_data[month_name]
            IN  [monthly_data |-> month_data,
                 comparisons |->
                    [param_name \in DOMAIN benchmark_data \cap DOMAIN month_data |->
                        [benchmark |-> benchmark_data[param_name],
                         monthly |-> month_data[param_name],
                         difference |-> month_data[param_name] - benchmark_data[param_name],
                         ratio |-> safe_divide(month_data[param_name],
                                               benchmark_data[param_name], Fx(1))]]]]]

calculate_comparison_with_benchmark(benchmark_data, monthly_data) ==
    [benchmark |-> benchmark_data,
     monthly_comparisons |->
        [month_name \in DOMAIN monthly_data |->
            LET month_data == monthly_data[month_name]
                compared == {param_name \in DOMAIN benchmark_data \cap DOMAIN month_data :
                                benchmark_data[param_name] # 0}
            IN  [monthly_data |-> month_data,
                 comparisons |->
                    [param_name \in compared |->
                        [benchmark |-> benchmark_data[param_name],
                         monthly |-> month_data[param_name],
                         difference |-> month_data[param_name] - benchmark_data[param_name],
                         ratio |-> safe_divide(month_data[param_name],
                                               benchmark_data[param_name], Fx(1))]]]]]

\* benchmark values by key: zero, positive and negative
BenchmarkChoices ==
    [actual_load |-> {0, Fx(100)},
     actual_temperature |-> {0, Fx(50), Fx(0 - 20)},
     efficiency |-> {Dec(9, 10)}]

\* the values of one month by key; humidity has no benchmark value
MonthDataChoices ==
    [actual_load |-> {0, Fx(80)},
     actual_temperature |-> {Fx(50)},
     actual_humidity |-> {Fx(60)}]

MonthNames == {"January", "February"}

InitComparison ==
    /\ pc = "call"
    /\ ret = <<>>
    /\ store = <<>>
    /\ op = "comparison_with_benchmark"
    /\ \E benchmark_data \in DictsOver(BenchmarkChoices) :
         \E names \in SUBSET MonthNames :
            \E monthly_data \in [names -> DictsOver(MonthDataChoices)] :
               args = <<benchmark_data, monthly_data>>

ComparisonWithBenchmark ==
    Return("comparison_with_benchmark", calculate_comparison_with_benchmark(args[1], args[2]))

NextComparison == ComparisonWithBenchmark

SpecComparison == InitComparison /\ [][NextComparison]_vars

-----------------------------------------------------------------------------
(* input_handler.py: the validation of a parameter set *)

\* values as a caller supplies them: floats, strings and None
Num(x) == [kind |-> "float", num |-> x, text |-> ""]

Str(s) == [kind |-> "str", num |-> 0, text |-> s]

None == [kind |-> "none", num |-> 0, text |-> ""]

\* the strings float() accepts, with their values
FloatOfText == [t \in {"0.7", "150", "-3"} |->
                   IF t = "0.7" THEN Dec(7, 10) ELSE IF t = "150" THEN Fx(150) ELSE Fx(0 - 3)]

\* float(value): [value |-> x], or ValueError / TypeError raised
float(value) ==
    IF value["kind"] = "float" THEN [value |-> value["num"]]
    ELSE IF value["kind"] = "str"
         THEN IF value["text"] \in DOMAIN FloatOfText
              THEN [value |-> FloatOfText[value["text"]]]
              ELSE Raise("ValueError")
         ELSE Raise("TypeError")

\* validate_numeric on any value; a limit is <<x>>, or <<>> for None
validate_numeric_value(value, min_value, max_value) ==
    LET converted == float(value)
        raised_to_min ==
            IF Len(min_value) > 0 THEN Max(min_value[1], converted["value"])
            ELSE converted["value"]
        num_value ==
            IF Len(max_value) > 0 THEN Min(max_value[1], raised_to_min) ELSE raised_to_min
    IN  IF Raised(converted) THEN 0 ELSE num_value

\* the limits validate_parameters applies to a key: <<min_value, max_value>>
LimitsOf(key) ==
    CASE key \in {"base_load", "actual_load", "heating_load"} -> <<<<0>>, <<Fx(100)>>>>
      [] key \in {"base_temperature", "actual_temperature", "base_sea_temperature"} ->
            <<<<Fx(0 - 40)>>, <<Fx(80)>>>>
      [] key \in {"base_pressure", "actual_pressure"} -> <<<<0>>, <<Fx(50)>>>>
      [] key \in {"base_humidity", "actual_humidity"} -> <<<<0>>, <<Fx(100)>>>>
      [] key \in {"efficiency"} -> <<<<Dec(5, 10)>>, <<Fx(1)>>>>
      [] key \in {"coal_calorific_value", "actual_calorific_value"} ->
            <<<<Fx(1000)>>, <<Fx(8000)>>>>
      [] key \in {"electricity_output", "heating_output"} -> <<<<0>>, <<>>>>

NumericKeys ==
    {"base_load", "actual_load", "heating_load",
     "base_temperature", "actual_temperature", "base_sea_temperature",
     "base_pressure", "actual_pressure", "base_humidity", "actual_humidity",
     "efficiency", "coal_calorific_value", "actual_calorific_value",
     "electricity_output", "heating_output"}

valid_modes == {"normal", "peak", "low", "heating"}

validate_parameters(parameters) ==
    [key \in DOMAIN parameters |->
        IF key \in NumericKeys
        THEN Num(validate_numeric_value(parameters[key], LimitsOf(key)[1], LimitsOf(key)[2]))
        ELSE IF key = "operation_mode"
             THEN IF parameters[key]["kind"] = "str" /\ parameters[key]["text"] \in valid_modes
                  THEN parameters[key]
                  ELSE Str("normal")
             ELSE parameters[key]]

\* keys a caller supplies in one parameter set
MaxValidated == 2

\* supplied values: below, inside and above the ranges, numeric and
\* non-numeric strings, a mode name, None
RawVals ==
    {Num(Fx(0 - 100)), Num(Dec(7, 10)), Num(Fx(60)), Num(Fx(9000)),
     Str("abc"), Str("150"), Str("peak"), None}

\* the recognised keys and one key the validation does not know
SuppliedKeys == NumericKeys \cup {"operation_mode", "unit_name"}

InitValidate ==
    /\ pc = "call"
    /\ ret = <<>>
    /\ store = <<>>
    /\ op = "validate_parameters"
    /\ \E keys \in SubsetsUpTo(SuppliedKeys, MaxValidated) :
         \E parameters \in [keys -> RawVals] :
            args = <<parameters>>

ValidateParameters == Return("validate_parameters", validate_parameters(args[1]))

NextValidate == ValidateParameters

SpecValidate == InitValidate /\ [][NextValidate]_vars

-----------------------------------------------------------------------------
(* The calls on dict objects: which object each call writes to *)

\* dict.copy(): a new object with the items of object id; it is Len(s) + 1
Copy(s, id) == Append(s, s[id])

\* the item assignment object[key] = value
SetItem(s, id, key, value) == [s EXCEPT ![id] = Put(s[id], key, value)]

\* a call has run: its return value and the store it leaves
Completed(f, outcome) ==
    /\ pc = "call"
    /\ op = f
    /\ ret' = outcome["ret"]
    /\ store' = outcome["store"]
    /\ pc' = "done"
    /\ UNCHANGED <<op, args>>

operation_modes == <<"normal", "peak", "low", "heating">>

\* the loop over the modes from mode i on; with copies = FALSE the mode
\* parameters are the caller's own object
RECURSIVE operation_mode_loop(_, _, _, _, _, _)
operation_mode_loop(s, params, calculation_settings, i, results, copies) ==
    IF i > Len(operation_modes) THEN [store |-> s, ret |-> results]
    ELSE LET mode == operation_modes[i]
             copied == IF copies THEN Copy(s, params) ELSE s
             mode_params == IF copies THEN Len(copied) ELSE params
             s1 == SetItem(copied, mode_params, "operation_mode", mode)
             base_load == Get(s1[params], "base_load", Fx(100))
             actual_load ==
                 CASE mode = "peak" -> MulFix(base_load, Dec(11, 10))
                   [] mode = "low" -> MulFix(base_load, Dec(5, 10))
                   [] mode = "heating" -> MulFix(base_load, Dec(8, 10))
                   [] OTHER -> base_load
             s2 == SetItem(s1, mode_params, "actual_load", actual_load)
             heating_load ==
                 CASE mode = "peak" -> 0
                   [] mode = "low" -> 0
                   [] mode = "heating" ->
                        MulFix(Get(s2[params], "heating_load", Fx(50)), Dec(12, 10))
                   [] OTHER -> Get(s2[params], "heating_load", 0)
             s3 == SetItem(s2, mode_params, "heating_load", heating_load)
             mode_results ==
                 calculate_benchmark_coal_consumption(s3[mode_params], s3[calculation_settings])
         IN  operation_mode_loop(s3, params, calculation_settings, i + 1,
                                 Put(results, mode, mode_results), copies)

\* every mode evaluated on the caller's own params object
by_operation_mode_on_shared_params(s, params, calculation_settings) ==
    operation_mode_loop(s, params, calculation_settings, 1, <<>>, FALSE)

calculate_coal_consumption_by_operation_mode(s, params, calculation_settings) ==
    operation_mode_loop(s, params, calculation_settings, 1, <<>>, TRUE)

\* calculate_benchmark_coal_consumption, calculate_heating_impact and
\* calculate_annual_coal_consumption assign to no item of a mapping they are
\* given: they read with get() and build their results in new dicts
benchmark_call(s, params, calculation_settings) ==
    [store |-> s,
     ret |-> calculate_benchmark_coal_consumption(s[params], s[calculation_settings])]

heating_impact_call(s, params) ==
    [store |-> s, ret |-> calculate_heating_impact(s[params])]

annual_call(s, monthly_params, calculation_settings) ==
    [store |-> s,
     ret |-> calculate_annual_coal_consumption([i \in 1..Len(monthly_params) |-> s[monthly_params[i]]],
                                               s[calculation_settings])]

\* the power-only parameters are a copy; the results are read from the
\* objects as the writes left them
with_heating_call(s, params, calculation_settings) ==
    LET copied == Copy(s, params)
        power_only_params == Len(copied)
        s1 == SetItem(copied, power_only_params, "heating_output", 0)
        s2 == SetItem(s1, power_only_params, "heating_load", 0)
    IN  [store |-> s2,
         ret |-> calculate_coal_consumption_with_heating(s2[params], s2[calculation_settings])]

\* the points from point k on, each evaluated on a copy of params
RECURSIVE sensitivity_loop(_, _, _, _, _, _, _, _, _)
sensitivity_loop(s, params, calculation_settings, variable, min_value, step_size, steps, k, points) ==
    IF k > steps THEN [store |-> s, ret |-> points]
    ELSE LET value == FAdd(min_value, FMul(Fx(k - 1), step_size))
             copied == Copy(s, params)
             test_params == Len(copied)
             s1 == SetItem(copied, test_params, variable, value)
             result ==
                 calculate_benchmark_coal_consumption(s1[test_params], s1[calculation_settings])
         IN  sensitivity_loop(s1, params, calculation_settings, variable, min_value, step_size,
                              steps, k + 1,
                              Append(points, <<value, result["benchmark_coal_consumption"]>>))

\* the points from point k on, each written into the caller's own params
RECURSIVE sensitivity_loop_without_copy(_, _, _, _, _, _, _, _, _)
sensitivity_loop_without_copy(s, params, calculation_settings, variable, min_value, step_size, steps, k, points) ==
    IF k > steps THEN [store |-> s, ret |-> points]
    ELSE LET value == FAdd(min_value, FMul(Fx(k - 1), step_size))
             s1 == SetItem(s, params, variable, value)
             result ==
                 calculate_benchmark_coal_consumption(s1[params], s1[calculation_settings])
         IN  sensitivity_loop_without_copy(s1, params, calculation_settings, variable, min_value,
                                           step_size, steps, k + 1,
                                           Append(points, <<value, result["benchmark_coal_consumption"]>>))

sensitivity_call_without_copy(s, params, calculation_settings, variable, min_value, max_value, steps) ==
    LET n == IF steps < 2 THEN 2 ELSE steps
        step_size == RoundFloat(safe_divide(max_value - min_value, Fx(n - 1), 0))
    IN  sensitivity_loop_without_copy(s, params, calculation_settings, variable, min_value,
                                      step_size, n, 1, <<>>)

sensitivity_call(s, params, calculation_settings, variable, min_value, max_value, steps) ==
    LET n == IF steps < 2 THEN 2 ELSE steps
        step_size == RoundFloat(safe_divide(max_value - min_value, Fx(n - 1), 0))
    IN  sensitivity_loop(s, params, calculation_settings, variable, min_value, step_size,
                         n, 1, <<>>)

\* validated_params is a copy; the validated dict is returned as a new object
validate_parameters_call(s, parameters) ==
    [store |-> Append(s, validate_parameters(s[parameters])), ret |-> Len(s) + 1]

\* parameter sets of the caller: loads, heating and outputs present or absent
CallerChoices ==
    [base_load |-> {Fx(50), Fx(80)},
     actual_load |-> {Fx(20)},
     heating_load |-> {Fx(30), Fx(10)},
     heating_output |-> {0, Fx(100)},
     electricity_output |-> {Fx(100)}]

CallerSettings == {<<>>, [enable_heating_correction |-> FALSE]}

\* raw parameter sets handed to the validation
RawChoices == [efficiency |-> RawVals, actual_load |-> RawVals, operation_mode |-> RawVals]

InitCalls ==
    /\ pc = "call"
    /\ ret = <<>>
    /\ \/ /\ op \in {"benchmark_coal_consumption", "heating_impact",
                     "coal_consumption_by_operation_mode", "coal_consumption_with_heating"}
          /\ \E params \in DictsOver(CallerChoices) :
               \E settings \in CallerSettings :
                  /\ store = <<params, settings>>
                  /\ args = <<1, 2>>
       \/ /\ op = "coal_consumption_sensitivity"
          /\ \E params \in DictsOver(CallerChoices) :
               \E settings \in CallerSettings :
                  \E variable \in {"actual_load", "heating_load"} :
                     \E min_value \in {0, Fx(20)} :
                        \E steps \in {1, 3} :
                           /\ store = <<params, settings>>
                           /\ args = <<1, 2, variable, min_value, Fx(100), steps>>
       \/ /\ op = "annual_coal_consumption"
          /\ \E months \in SeqsUpTo(MonthChoices, 2) :
               \E settings \in CallerSettings :
                  /\ store = months \o <<settings>>
                  /\ args = <<[i \in 1..Len(months) |-> i], Len(months) + 1>>
       \/ /\ op = "validate_parameters"
          /\ \E parameters \in DictsOver(RawChoices) :
               /\ store = <<parameters>>
               /\ args = <<1>>

BenchmarkCall ==
    Completed("benchmark_coal_consumption", benchmark_call(store, args[1], args[2]))

HeatingImpactCall == Completed("heating_impact", heating_impact_call(store, args[1]))

ByOperationModeCall ==
    Completed("coal_consumption_by_operation_mode",
              calculate_coal_consumption_by_operation_mode(store, args[1], args[2]))

WithHeatingCall ==
    Completed("coal_consumption_with_heating", with_heating_call(store, args[1], args[2]))

SensitivityCall ==
    Completed("coal_consumption_sensitivity",
              sensitivity_call(store, args[1], args[2], args[3], args[4], args[5], args[6]))

AnnualCall == Completed("annual_coal_consumption", annual_call(store, args[1], args[2]))

ValidateParametersCall == Completed("validate_parameters", validate_parameters_call(store, args[1]))

NextCalls ==
    \/ BenchmarkCall
    \/ HeatingImpactCall
    \/ ByOperationModeCall
    \/ WithHeatingCall
    \/ SensitivityCall
    \/ AnnualCall
    \/ ValidateParametersCall

SpecCalls == InitCalls /\ [][NextCalls]_vars

-----------------------------------------------------------------------------
(* coal_consumption.py: the rates for benchmark data and monthly data *)

\* The benchmark and monthly data are keyed by the labels of the spreadsheet
\* columns.  The labels are written here in English: unit_load_rate,
\* local_temperature, sea_water_temperature, coal_heat_value and
\* power_generation, in the order in which the source reads them.

BenchmarkLoad(benchmark_data) == Get(benchmark_data, "unit_load_rate", Fx(100))

BenchmarkTemperature(benchmark_data) == Get(benchmark_data, "local_temperature", Fx(25))

BenchmarkSeaTemperature(benchmark_data) == Get(benchmark_data, "sea_water_temperature", Fx(19))

BenchmarkHeatValue(benchmark_data) == Get(benchmark_data, "coal_heat_value", Fx(4854))

benchmark_params_of(benchmark_data) ==
    [base_load |-> BenchmarkLoad(benchmark_data),
     base_temperature |-> BenchmarkTemperature(benchmark_data),
     base_sea_temperature |-> BenchmarkSeaTemperature(benchmark_data),
     coal_calorific_value |-> BenchmarkHeatValue(benchmark_data),
     base_pressure |-> Dec(167, 10),
     actual_load |-> BenchmarkLoad(benchmark_data),
     actual_temperature |-> BenchmarkTemperature(benchmark_data),
     actual_sea_temperature |-> BenchmarkSeaTemperature(benchmark_data),
     actual_calorific_value |-> BenchmarkHeatValue(benchmark_data),
     efficiency |-> Dec(9, 10),
     electricity_output |-> Get(benchmark_data, "power_generation", Fx(1000))]

month_params_of(benchmark_data, month_data) ==
    [base_load |-> BenchmarkLoad(benchmark_data),
     base_temperature |-> BenchmarkTemperature(benchmark_data),
     base_sea_temperature |-> BenchmarkSeaTemperature(benchmark_data),
     coal_calorific_value |-> BenchmarkHeatValue(benchmark_data),
     base_pressure |-> Dec(167, 10),
     actual_load |-> Get(month_data, "unit_load_rate", BenchmarkLoad(benchmark_data)),
     actual_temperature |->
         Get(month_data, "local_temperature", BenchmarkTemperature(benchmark_data)),
     actual_sea_temperature |->
         Get(month_data, "sea_water_temperature", BenchmarkSeaTemperature(benchmark_data)),
     actual_calorific_value |->
         Get(month_data, "coal_heat_value", BenchmarkHeatValue(benchmark_data)),
     efficiency |-> Dec(9, 10),
     electricity_output |-> Get(month_data, "power_generation", Fx(1000))]

\* every month evaluated against the fixed defaults instead of the benchmark data
monthly_data_without_benchmark_fallback(benchmark_data, monthly_data, calculation_settings) ==
    [benchmark_coal_consumption |->
        calculate_benchmark_coal_consumption(benchmark_params_of(benchmark_data),
                                             calculation_settings)["benchmark_coal_consumption"],
     monthly_coal_consumption |->
        [month_name \in DOMAIN monthly_data |->
            calculate_benchmark_coal_consumption(
                month_params_of(<<>>, monthly_data[month_name]),
                calculation_settings)["benchmark_coal_consumption"]]]

\* the benchmark rate evaluated with the actual values left at their defaults
monthly_data_benchmark_at_defaults(benchmark_data, monthly_data, calculation_settings) ==
    [benchmark_coal_consumption |->
        calculate_benchmark_coal_consumption(
            month_params_of(benchmark_data,
                            [unit_load_rate |-> Fx(100), local_temperature |-> Fx(25),
                             sea_water_temperature |-> Fx(19), coal_heat_value |-> Fx(4854)]),
            calculation_settings)["benchmark_coal_consumption"],
     monthly_coal_consumption |->
        [month_name \in DOMAIN monthly_data |->
            calculate_benchmark_coal_consumption(
                month_params_of(benchmark_data, monthly_data[month_name]),
                calculation_settings)["benchmark_coal_consumption"]]]

calculate_coal_consumption_for_monthly_data(benchmark_data, monthly_data, calculation_settings) ==
    [benchmark_coal_consumption |->
        calculate_benchmark_coal_consumption(benchmark_params_of(benchmark_data),
                                             calculation_settings)["benchmark_coal_consumption"],
     monthly_coal_consumption |->
        [month_name \in DOMAIN monthly_data |->
            calculate_benchmark_coal_consumption(
                month_params_of(benchmark_data, monthly_data[month_name]),
                calculation_settings)["benchmark_coal_consumption"]]]

\* benchmark data: each label absent, ordinary, or zero
BenchmarkDataChoices ==
    [unit_load_rate |-> {0, Fx(80)},
     local_temperature |-> {Fx(30)},
     sea_water_temperature |-> {Fx(10)},
     coal_heat_value |-> {0, Fx(5500)},
     power_generation |-> {Fx(500)}]

\* the data of a month: nothing, the benchmark's own values, deviating values,
\* and labels the calculation does not read
MonthDataSets ==
    {<<>>,
     [unit_load_rate |-> Fx(80), local_temperature |-> Fx(30)],
     [unit_load_rate |-> Fx(100), coal_heat_value |-> Fx(5500)],
     [unit_load_rate |-> Fx(40)],
     [local_temperature |-> Fx(10), sea_water_temperature |-> Fx(25)],
     [coal_heat_value |-> Fx(4500), power_generation |-> Fx(200)],
     [power_generation |-> Fx(200), coal_consumption_rate |-> Fx(300)],
     [unit_load_rate |-> Fx(40), coal_consumption_rate |-> Fx(300)]}

MonthlySettings ==
    {<<>>, [enable_sea_temperature_correction |-> TRUE],
     [enable_temperature_correction |-> FALSE]}

InitMonthly ==
    /\ pc = "call"
    /\ ret = <<>>
    /\ store = <<>>
    /\ op = "coal_consumption_for_monthly_data"
    /\ \E benchmark_data \in DictsOver(BenchmarkDataChoices) :
         \E names \in SUBSET MonthNames :
            \E monthly_data \in [names -> MonthDataSets] :
               \E settings \in MonthlySettings :
                  args = <<benchmark_data, monthly_data, settings>>

CoalConsumptionForMonthlyData ==
    Return("coal_consumption_for_monthly_data",
           calculate_coal_consumption_for_monthly_data(args[1], args[2], args[3]))

NextMonthly == CoalConsumptionForMonthlyData

SpecMonthly == InitMonthly /\ [][NextMonthly]_vars

-----------------------------------------------------------------------------
(* input_handler.py: the handler, its stored defaults and its callers *)

\* calculation_params[key] = calculation_params[source] unless key is present;
\* KeyError when neither is
DefaultedFrom(calculation_params, key, source) ==
    IF Raised(calculation_params) THEN calculation_params
    ELSE IF key \in DOMAIN calculation_params THEN calculation_params
    ELSE IF source \in DOMAIN calculation_params
         THEN Put(calculation_params, key, calculation_params[source])
         ELSE Raise("KeyError")

\* key_kj = value of key x 4.1868 when key is present
WithKilojoules(calculation_params, key, key_kj) ==
    IF key \in DOMAIN calculation_params
    THEN Put(calculation_params, key_kj,
             Num(MulFix(calculation_params[key]["num"], Dec(41868, 10000))))
    ELSE calculation_params

\* the actual calorific value and its kJ value taken from the coal's
ActualCalorificValueDefaulted(calculation_params) ==
    LET defaulted ==
            DefaultedFrom(calculation_params, "actual_calorific_value", "coal_calorific_value")
    IN  IF Raised(calculation_params) THEN calculation_params
        ELSE IF "actual_calorific_value" \in DOMAIN calculation_params THEN calculation_params
        ELSE IF Raised(defaulted) THEN defaulted
        ELSE Put(defaulted, "actual_calorific_value_kj",
                 Get(defaulted, "coal_calorific_value_kj", Num(Fx(20320))))

get_parameters_for_calculation(user_input) ==
    LET validated_params == validate_parameters(user_input)
        c1 == WithKilojoules(validated_params, "coal_calorific_value", "coal_calorific_value_kj")
        c2 == WithKilojoules(c1, "actual_calorific_value", "actual_calorific_value_kj")
        c3 == DefaultedFrom(c2, "actual_load", "base_load")
        c4 == DefaultedFrom(c3, "actual_temperature", "base_temperature")
        c5 == DefaultedFrom(c4, "actual_pressure", "base_pressure")
        c6 == DefaultedFrom(c5, "actual_humidity", "base_humidity")
        c7 == ActualCalorificValueDefaulted(c6)
    IN  DefaultedFrom(c7, "total_load", "base_load")

\* The handler's default_parameters is object 1 of the store; the objects after
\* it are the mappings the handler has returned to its callers.  A call
\* yields the store it leaves and its return value: [object |-> id] or an
\* exception.

\* the stored defaults themselves handed out
get_default_parameters_without_copy(s) == [store |-> s, ret |-> [object |-> 1]]

get_default_parameters(s) == [store |-> Copy(s, 1), ret |-> [object |-> Len(s) + 1]]

\* input_params is a copy of the defaults updated with the caller's
\* parameters; the validated dict is returned as a new object
get_user_input(s, parameters) ==
    LET input_params == parameters @@ s[1]
    IN  [store |-> Append(s, validate_parameters(input_params)),
         ret |-> [object |-> Len(s) + 1]]

validate_parameters_of_handler(s, parameters) ==
    [store |-> Append(s, validate_parameters(parameters)), ret |-> [object |-> Len(s) + 1]]

get_parameters_for_calculation_of_handler(s, user_input) ==
    LET calculation_params == get_parameters_for_calculation(user_input)
    IN  IF Raised(calculation_params) THEN [store |-> s, ret |-> calculation_params]
        ELSE [store |-> Append(s, calculation_params), ret |-> [object |-> Len(s) + 1]]

\* objects in the store at once: the defaults and the mappings callers hold
MaxObjects == 3

\* the default_parameters section of the configuration: missing, partial, full
DefaultSets ==
    {<<>>,
     [base_load |-> Num(Fx(100)), efficiency |-> Num(Dec(9, 10))],
     [base_load |-> Num(Fx(100)), base_temperature |-> Num(Fx(25)),
      base_pressure |-> Num(Dec(167, 10)), base_humidity |-> Num(Fx(60)),
      coal_calorific_value |-> Num(Fx(4854)), efficiency |-> Num(Dec(9, 10))]}

\* mappings a caller passes in
CallerInputs ==
    {<<>>,
     [base_load |-> Num(Fx(50)), operation_mode |-> Str("peak")],
     [efficiency |-> Str("abc"), unit_name |-> Str("abc")],
     [base_load |-> Num(Fx(80)), base_temperature |-> Num(Fx(30)),
      base_pressure |-> Num(Fx(17)), base_humidity |-> Num(Fx(50)),
      coal_calorific_value |-> Num(Fx(5500))]}

\* what a caller can pass: a new mapping or one it holds
Passable == CallerInputs \cup {store[id] : id \in 2..Len(store)}

InitHandler ==
    /\ pc = "idle"
    /\ op = "__init__"
    /\ args = <<>>
    /\ ret = <<>>
    /\ \E default_parameters \in DefaultSets : store = <<default_parameters>>

\* a method of the handler has run on the given arguments
Called(method, arguments, outcome) ==
    /\ Len(store) < MaxObjects
    /\ op' = method
    /\ args' = arguments
    /\ ret' = outcome["ret"]
    /\ store' = outcome["store"]
    /\ pc' = "done"

GetDefaultParameters == Called("get_default_parameters", <<>>, get_default_parameters(store))

GetUserInput ==
    \E parameters \in Passable :
        Called("get_user_input", <<parameters>>, get_user_input(store, parameters))

HandlerValidateParameters ==
    \E parameters \in Passable :
        Called("validate_parameters", <<parameters>>,
               validate_parameters_of_handler(store, parameters))

GetParametersForCalculation ==
    \E user_input \in Passable :
        Called("get_parameters_for_calculation", <<user_input>>,
               get_parameters_for_calculation_of_handler(store, user_input))

\* the mappings callers hold: those created for them and the one just returned
Held ==
    (2..Len(store)) \cup (IF "object" \in DOMAIN ret THEN {ret["object"]} ELSE {})

\* a caller changes a key of a mapping it was handed
CallerSetsItem ==
    \E id \in Held :
        \E key \in {"base_load"} :
            \E value \in {Num(Fx(60)), Str("abc")} :
                /\ store[id] # Put(store[id], key, value)
                /\ op' = "caller_set_item"
                /\ args' = <<id, key, value>>
                /\ ret' = <<>>
                /\ store' = SetItem(store, id, key, value)
                /\ pc' = "done"

NextHandler ==
    \/ GetDefaultParameters
    \/ GetUserInput
    \/ HandlerValidateParameters
    \/ GetParametersForCalculation
    \/ CallerSetsItem

SpecHandler == InitHandler /\ [][NextHandler]_vars

-----------------------------------------------------------------------------
(* Properties of the correction functions (SpecFactors) *)

Returned(f) == pc = "done" /\ op = f

BandLow(f) ==
    CASE f = "load_factor" -> Dec(8, 10)
      [] f = "temperature" -> Dec(95, 100)
      [] f = "pressure" -> Dec(98, 100)
      [] f = "humidity" -> Dec(99, 100)
      [] f = "heating" -> Dec(7, 10)
      [] f = "steam_parameter" -> Dec(97, 100)
      [] f = "fuel" -> Dec(8, 10)
      [] f = "sea_temperature" -> Dec(98, 100)

BandHigh(f) ==
    CASE f = "load_factor" -> Dec(15, 10)
      [] f = "temperature" -> Dec(105, 100)
      [] f = "pressure" -> Dec(102, 100)
      [] f = "humidity" -> Dec(101, 100)
      [] f = "heating" -> Fx(1)
      [] f = "steam_parameter" -> Dec(103, 100)
      [] f = "fuel" -> Dec(12, 10)
      [] f = "sea_temperature" -> Dec(102, 100)

\* C1: every correction function returns a value inside its documented band,
\* whatever its arguments (zero, negative, extreme).
C1_FactorWithinBand ==
    pc = "done" => (BandLow(op) <= ret /\ ret <= BandHigh(op))

\* an extreme temperature difference has been clamped to the upper bound
C1_Witness ==
    /\ Returned("temperature")
    /\ args = <<Fx(1000), Fx(0 - 1000)>>
    /\ ret = Dec(105, 100)

\* C4 as stated: for every correction function other than load_factor, equal
\* actual and base arguments give exactly 1.0 (heating included).
C4_EqualArgumentsNeutral ==
    /\ (pc = "done" /\ op \in PairFunctions \ {"load_factor"} /\ args[1] = args[2])
          => ret = Fx(1)
    /\ (Returned("steam_parameter") /\ args[1] = args[3] /\ args[2] = args[4])
          => ret = Fx(1)

\* C4 amended: for temperature, pressure, humidity, steam_parameter, fuel and
\* sea_temperature equal actual and base arguments give exactly 1.0; heating
\* with heating_load = total_load gives 1.0 when that value is <= 0 and 0.7
\* when it is positive.
C4_EqualArgumentsNeutralExceptHeating ==
    /\ (pc = "done" /\ op \in PairFunctions \ {"load_factor", "heating"} /\ args[1] = args[2])
          => ret = Fx(1)
    /\ (Returned("steam_parameter") /\ args[1] = args[3] /\ args[2] = args[4])
          => ret = Fx(1)
    /\ (Returned("heating") /\ args[1] = args[2])
          => ret = (IF args[1] <= 0 THEN Fx(1) ELSE Dec(7, 10))

\* pressure correction at actual = base = 16.7 MPa has returned
C4_Witness ==
    /\ Returned("pressure")
    /\ args = <<Dec(167, 10), Dec(167, 10)>>
    /\ ret = Fx(1)

\* C5: the load factor is exactly 1.0 whenever the load ratio lies in the
\* no-penalty region 0.7 .. 1.0, both ends included.
C5_LoadFactorNoPenaltyRegion ==
    Returned("load_factor") =>
        LET load_ratio == safe_divide(args[1], args[2], Fx(1))
        IN  (Dec(7, 10) <= load_ratio /\ load_ratio <= Fx(1)) => ret = Fx(1)

\* the load factor at the lower end of the region, ratio 70/100
C5_Witness ==
    /\ Returned("load_factor")
    /\ args = <<Fx(70), Fx(100)>>
    /\ ret = Fx(1)

\* C6: every ratio-based correction returns the neutral 1.0 when the
\* denominator of its ratio is zero or its baseline is zero or negative
\* (for steam_parameter: its pressure part, seen with equal temperatures).
C6_NonPositiveBaselineNeutral ==
    /\ (pc = "done" /\ op \in {"load_factor", "pressure"} /\ args[2] <= 0) => ret = Fx(1)
    /\ (Returned("fuel") /\ (args[1] = 0 \/ args[2] <= 0)) => ret = Fx(1)
    /\ (Returned("steam_parameter") /\ args[1] = args[3] /\ args[4] <= 0) => ret = Fx(1)

-----------------------------------------------------------------------------
(* Properties of the basic consumption (SpecBasic) *)

\* C7: the basic consumption is 0.0 whenever electricity_output is zero.
C7_ZeroOutputZeroConsumption ==
    (Returned("basic_coal_consumption") /\ args[1] = 0) => ret = 0

\* C8: for electricity_output > 0 the basic consumption lies in [80, 250]
\* g/kWh, for heat values and efficiencies inside or outside their ranges.
C8_BasicWithinBand ==
    (Returned("basic_coal_consumption") /\ args[1] > 0)
        => (Fx(80) <= ret /\ ret <= Fx(250))

\* heat value and efficiency both below their ranges, result clamped to 250
C8_Witness ==
    /\ Returned("basic_coal_consumption")
    /\ args = <<Fx(500), Fx(500), Fx(0 - 1)>>
    /\ ret = Fx(250)

\* C9: for fixed electricity_output > 0 the basic consumption never grows
\* when the heat value grows or when the efficiency grows.
C9_BasicMonotone ==
    (Returned("basic_coal_consumption") /\ args[1] > 0) =>
        /\ \A h \in BasicHeatVals :
              h >= args[2] => calculate_basic_coal_consumption(args[1], h, args[3]) <= ret
        /\ \A f \in EfficiencyVals :
              f >= args[3] => calculate_basic_coal_consumption(args[1], args[2], f) <= ret

\* a call whose result is strictly above that of a larger heat value and that
\* of a larger efficiency
C9_Witness ==
    /\ Returned("basic_coal_consumption")
    /\ args = <<Fx(1000), Fx(4854), Dec(8, 10)>>
    /\ calculate_basic_coal_consumption(Fx(1000), Fx(6000), Dec(8, 10)) < ret
    /\ calculate_basic_coal_consumption(Fx(1000), Fx(4854), Dec(9, 10)) < ret

-----------------------------------------------------------------------------
(* Properties of the comprehensive correction and the benchmark consumption
   (SpecBenchmark) *)

Factors ==
    {"load_factor", "temperature", "pressure", "humidity", "heating",
     "steam_parameter", "fuel", "sea_temperature"}

FlagOf(f) ==
    CASE f = "temperature" -> "enable_temperature_correction"
      [] f = "pressure" -> "enable_pressure_correction"
      [] f = "humidity" -> "enable_humidity_correction"
      [] f = "heating" -> "enable_heating_correction"
      [] f = "steam_parameter" -> "enable_steam_parameter_correction"
      [] f = "fuel" -> "enable_fuel_correction"
      [] f = "sea_temperature" -> "enable_sea_temperature_correction"

\* the clamped value of each factor for a parameter set
ClampedValues(params) ==
    [load_factor |-> load_factor_of(params),
     temperature |-> temperature_of(params),
     pressure |-> pressure_of(params),
     humidity |-> humidity_of(params),
     heating |-> heating_of(params),
     steam_parameter |-> steam_parameter_of(params),
     fuel |-> fuel_of(params),
     sea_temperature |-> sea_temperature_of(params)]

\* the returned corrections are those composed from the enabled factors only
ComposedFrom(enabled) ==
    LET values == ClampedValues(args[1])
        product == ProductOver(FactorOrder, values, Factors \ enabled, Fx(1))
    IN  /\ \A f \in Factors : ret[f] = (IF f \in enabled THEN values[f] ELSE Fx(1))
        /\ ret["comprehensive"] = Max(Dec(7, 10), Min(Dec(13, 10), product))

\* C2: the comprehensive factor lies within [0.7, 1.3] for every parameter
\* set and every settings mapping.
C2_ComprehensiveWithinBand ==
    Returned("comprehensive_correction")
        => (Dec(7, 10) <= ret["comprehensive"] /\ ret["comprehensive"] <= Dec(13, 10))

\* load factor 1.28 times temperature 1.03 exceeds 1.3 and has been clamped
C2_Witness ==
    /\ Returned("comprehensive_correction")
    /\ args = <<[actual_load |-> Fx(20), actual_temperature |-> Fx(40)], <<>>>>
    /\ MulFix(ret["load_factor"], ret["temperature"]) > Dec(13, 10)
    /\ ret["comprehensive"] = Dec(13, 10)

\* C3 as stated: comprehensive is the clamped product of the enabled factors,
\* every factor (sea_temperature included) being enabled when its setting is
\* absent, load_factor always, a disabled factor reported as 1.0.
C3_CompositionAllEnabledByDefault ==
    Returned("comprehensive_correction") =>
        ComposedFrom({"load_factor"} \cup
                     {f \in Factors \ {"load_factor"} : Get(args[2], FlagOf(f), TRUE)})

\* C3 amended: as stated, except that sea_temperature is enabled only when its
\* setting is present and true and params contains base_sea_temperature.
C3_CompositionSeaOptIn ==
    Returned("comprehensive_correction") =>
        ComposedFrom({"load_factor"} \cup
                     {f \in Factors \ {"load_factor", "sea_temperature"} :
                         Get(args[2], FlagOf(f), TRUE)} \cup
                     {f \in {"sea_temperature"} :
                         /\ Get(args[2], FlagOf(f), FALSE)
                         /\ "base_sea_temperature" \in DOMAIN args[1]})

\* temperature disabled while the temperature deviates: reported as 1.0, and
\* the product is the load factor alone
C3_Witness ==
    /\ Returned("comprehensive_correction")
    /\ args = <<[actual_load |-> Fx(120), actual_temperature |-> Fx(40)],
                [enable_temperature_correction |-> FALSE]>>
    /\ ret["temperature"] = Fx(1)
    /\ ret["load_factor"] = Dec(111, 100)
    /\ ret["comprehensive"] = Dec(111, 100)

\* C10: the benchmark bundle has benchmark = basic x comprehensive and carries
\* every correction factor with the value the comprehensive correction
\* produced for the same params and settings.
C10_BenchmarkBundle ==
    Returned("benchmark_coal_consumption") =>
        LET corrections == calculate_comprehensive_correction(args[1], args[2])
        IN  /\ ret["basic_coal_consumption"] =
                  calculate_basic_coal_consumption(
                      Get(args[1], "electricity_output", Fx(1000)),
                      Get(args[1], "coal_calorific_value", Fx(4854)),
                      Get(args[1], "efficiency", Dec(9, 10)))
            /\ ret["benchmark_coal_consumption"] =
                  MulFix(ret["basic_coal_consumption"], corrections["comprehensive"])
            /\ \A f \in Factors \cup {"comprehensive"} : ret[f] = corrections[f]

\* a heating load of 30 % lowers the benchmark below the basic consumption
C10_Witness ==
    /\ Returned("benchmark_coal_consumption")
    /\ args = <<[heating_load |-> Fx(30)], <<>>>>
    /\ ret["heating"] = Dec(91, 100)
    /\ ret["comprehensive"] = Dec(91, 100)
    /\ ret["benchmark_coal_consumption"] < ret["basic_coal_consumption"]

-----------------------------------------------------------------------------
(* Properties of the heating impact (SpecHeating) *)

\* C11: the combined consumption returned by calculate_heating_impact lies
\* within [80, 200] g/kWh for every parameter set.
C11_CombinedWithinBand ==
    (Returned("heating_impact") /\ ~Raised(ret))
        => (Fx(80) <= ret["combined_coal_consumption"]
            /\ ret["combined_coal_consumption"] <= Fx(200))

\* C12: with heating_output zero the heating terms are 0.0 and the combined
\* consumption is the power-only basic consumption.
C12_ZeroHeatingOutput ==
    (Returned("heating_impact") /\ Get(args[1], "heating_output", Fx(500)) = 0
        /\ "heating_output" \in DOMAIN args[1])
        => /\ ~Raised(ret)
           /\ ret["heating_coal_consumption"] = 0
           /\ ret["heating_impact"] = 0
           /\ ret["combined_coal_consumption"] =
                  calculate_basic_coal_consumption(
                      Get(args[1], "electricity_output", Fx(1000)),
                      Get(args[1], "coal_calorific_value", Fx(4854)),
                      Get(args[1], "efficiency", Dec(9, 10)))

\* heating_output 0 with a heat value of 3000 kcal/kg: combined is the basic 250
C12_Witness ==
    /\ Returned("heating_impact")
    /\ args[1] = [heating_output |-> 0, coal_calorific_value |-> Fx(3000)]
    /\ ret["combined_coal_consumption"] = Fx(250)
    /\ ret["heating_impact"] = 0

\* C13: calculate_heating_impact and calculate_coal_consumption_with_heating
\* never raise, also for a zero heat value or zero efficiency with a non-zero
\* heating_output.
C13_NeverRaises ==
    (pc = "done" /\ op \in {"heating_impact", "coal_consumption_with_heating"})
        => ~Raised(ret)

-----------------------------------------------------------------------------
(* Properties of the annual aggregation (SpecAnnual) *)

\* the float sum of a sequence of numbers, taken from left to right
RECURSIVE FloatSum(_)
FloatSum(xs) ==
    IF xs = <<>> THEN 0
    ELSE FAdd(FloatSum(SubSeq(xs, 1, Len(xs) - 1)), xs[Len(xs)])

MonthElectricity(month) == Get(month, "electricity_output", 0)

\* C14: annual coal = sum over months of benchmark x electricity / 1000,
\* annual electricity = sum of the monthly electricity, annual rate =
\* annual coal x 1000 / annual electricity (energy-weighted), 0 when the
\* total electricity is not positive.
C14_AnnualTotals ==
    Returned("annual_coal_consumption") =>
        LET months == args[1]
            rate(i) ==
                calculate_benchmark_coal_consumption(months[i], args[2])["benchmark_coal_consumption"]
        IN  /\ ret["annual_coal_consumption"] =
                  FloatSum([i \in 1..Len(months) |->
                              FDiv(FMul(rate(i), MonthElectricity(months[i])), Fx(1000))])
            /\ ret["annual_electricity_output"] =
                  FloatSum([i \in 1..Len(months) |-> MonthElectricity(months[i])])
            /\ ret["annual_benchmark_coal_consumption"] =
                  (IF ret["annual_electricity_output"] > 0
                   THEN FDiv(FMul(ret["annual_coal_consumption"], Fx(1000)),
                             ret["annual_electricity_output"])
                   ELSE 0)

\* two months of different rate and different electricity: the annual rate is
\* not the mean of the two monthly rates
C14_Witness ==
    /\ Returned("annual_coal_consumption")
    /\ args[1] = <<[electricity_output |-> Fx(100)],
                   [electricity_output |-> Fx(50), actual_load |-> Fx(20)]>>
    /\ ret["annual_electricity_output"] = Fx(150)
    /\ 2 * ret["annual_benchmark_coal_consumption"] <
           ret["monthly_results"][1]["benchmark_coal_consumption"]
               + ret["monthly_results"][2]["benchmark_coal_consumption"]

\* the sequence xs reordered by the permutation sigma of its indices
Reordered(xs, sigma) == [i \in 1..Len(xs) |-> xs[sigma[i]]]

\* a and b agree up to n roundings of relative size 1/1000
Near(a, b, n) == Abs(a - b) <= n * (Max(Abs(a), Abs(b)) \div 1000 + 1)

\* C15 as stated: the annual totals and the annual rate are the same for every
\* permutation of the monthly parameter sets.
C15_AnnualOrderInvariant ==
    Returned("annual_coal_consumption") =>
        \A sigma \in Permutations(1..Len(args[1])) :
            LET other == calculate_annual_coal_consumption(Reordered(args[1], sigma), args[2])
            IN  /\ other["annual_electricity_output"] = ret["annual_electricity_output"]
                /\ other["annual_coal_consumption"] = ret["annual_coal_consumption"]
                /\ other["annual_benchmark_coal_consumption"] =
                       ret["annual_benchmark_coal_consumption"]

\* no month has a negative electricity output, so no sum cancels
NoNegativeElectricity(months) ==
    \A i \in 1..Len(months) : MonthElectricity(months[i]) >= 0

\* C15 amended: when no month's electricity output is negative, for every
\* permutation the annual totals and the annual rate agree up to the
\* floating-point rounding of the running sums.
C15_AnnualOrderInvariantUpToRounding ==
    (Returned("annual_coal_consumption") /\ NoNegativeElectricity(args[1])) =>
        \A sigma \in Permutations(1..Len(args[1])) :
            LET other == calculate_annual_coal_consumption(Reordered(args[1], sigma), args[2])
                n == Len(args[1])
            IN  /\ Near(other["annual_electricity_output"], ret["annual_electricity_output"], n)
                /\ Near(other["annual_coal_consumption"], ret["annual_coal_consumption"], n)
                /\ Near(other["annual_benchmark_coal_consumption"],
                        ret["annual_benchmark_coal_consumption"], n)

\* three months of different electricity and rate have been aggregated
C15_Witness ==
    /\ Returned("annual_coal_consumption")
    /\ args[1] = <<[electricity_output |-> Fx(25)],
                   [electricity_output |-> Fx(100)],
                   [electricity_output |-> Fx(50), actual_load |-> Fx(20)]>>
    /\ ret["annual_electricity_output"] = Fx(175)
    /\ ret["annual_coal_consumption"] > 0

-----------------------------------------------------------------------------
(* Properties of the sensitivity sweep (SpecSensitivity) *)

\* the number of points a sweep asked for with `steps` has
SweepCount(steps) == IF steps < 2 THEN 2 ELSE steps

\* the variable values of the returned points
SweepValues == [k \in 1..Len(ret) |-> ret[k][1]]

\* the rounding a sweep of n points may accumulate: the last digits that a
\* float of the magnitude of the ends keeps
SweepTolerance == 2 * SweepCount(args[6]) * Ulp(Max(Abs(args[4]), Abs(args[5])))

\* steps = n gives n points (2 when n < 2), each the benchmark consumption at
\* its value, the first value equal to min_value, the values evenly spaced
\* up to rounding
SweepShape ==
    LET n == SweepCount(args[6])
    IN  /\ Len(ret) = n
        /\ \A k \in 1..n :
              ret[k][2] =
                  calculate_benchmark_coal_consumption(Put(args[1], args[3], ret[k][1]),
                                                       args[2])["benchmark_coal_consumption"]
        /\ ret[1][1] = args[4]
        /\ \A k \in 1..(n - 1) :
              Abs((ret[k + 1][1] - ret[k][1]) - (ret[2][1] - ret[1][1])) <= SweepTolerance

\* C16 as stated: n points, evenly spaced, the first value equal to min_value
\* and the last value equal to max_value; steps below 2 is treated as 2.
C16_SweepEndsExact ==
    Returned("coal_consumption_sensitivity") =>
        /\ SweepShape
        /\ ret[Len(ret)][1] = args[5]

\* C16 amended: n points, evenly spaced, the first value equal to min_value and
\* the last value equal to max_value within floating-point tolerance; steps
\* below 2 is treated as 2.
C16_SweepEndsWithinTolerance ==
    Returned("coal_consumption_sensitivity") =>
        /\ SweepShape
        /\ Abs(ret[Len(ret)][1] - args[5]) <= SweepTolerance

\* a sweep of four points whose step is not representable: it ends below max
C16_Witness ==
    /\ Returned("coal_consumption_sensitivity")
    /\ args[4] = 0
    /\ args[5] = Fx(1)
    /\ args[6] = 4
    /\ Len(ret) = 4
    /\ ret[4][1] = Dec(9999, 10000)

StrictlyIncreasing(xs) == \A k \in 1..(Len(xs) - 1) : xs[k] < xs[k + 1]

StrictlyDecreasing(xs) == \A k \in 1..(Len(xs) - 1) : xs[k] > xs[k + 1]

\* C17 as stated: for any min_value, max_value and steps the variable values
\* are strictly monotonic.
C17_SweepStrictlyMonotonic ==
    Returned("coal_consumption_sensitivity") =>
        StrictlyIncreasing(SweepValues) \/ StrictlyDecreasing(SweepValues)

\* the step of the sweep is at least two units of the last digit a float of
\* the magnitude of the ends keeps
StepResolved ==
    Abs(args[5] - args[4]) >=
        2 * (SweepCount(args[6]) - 1) * Ulp(Max(Abs(args[4]), Abs(args[5])))

\* C17 amended: the variable values never move against the direction from
\* min_value to max_value; they are all equal to min_value when min_value =
\* max_value, and strictly monotonic when the step is not lost to rounding.
C17_SweepMonotonic ==
    Returned("coal_consumption_sensitivity") =>
        LET xs == SweepValues
        IN  /\ args[4] <= args[5] => \A k \in 1..(Len(xs) - 1) : xs[k] <= xs[k + 1]
            /\ args[4] >= args[5] => \A k \in 1..(Len(xs) - 1) : xs[k] >= xs[k + 1]
            /\ args[4] = args[5] => \A k \in 1..Len(xs) : xs[k] = args[4]
            /\ (StepResolved /\ args[4] < args[5]) => StrictlyIncreasing(xs)
            /\ (StepResolved /\ args[4] > args[5]) => StrictlyDecreasing(xs)

\* a descending sweep of three points has been returned
C17_Witness ==
    /\ Returned("coal_consumption_sensitivity")
    /\ args[4] = Fx(100)
    /\ args[5] = Fx(20)
    /\ args[6] = 3
    /\ SweepValues = <<Fx(100), Fx(60), Fx(20)>>

-----------------------------------------------------------------------------
(* Properties of the comparison with benchmark data (SpecComparison) *)

\* the keys present in both the benchmark mapping and the mapping of a month
CommonKeys(month_name) == DOMAIN args[1] \cap DOMAIN args[2][month_name]

\* the comparison entries returned for a month
ComparisonsOf(month_name) == ret["monthly_comparisons"][month_name]["comparisons"]

\* the entry of a key holds month - benchmark and month / benchmark
EntryAsStated(month_name, k) ==
    LET entry == ComparisonsOf(month_name)[k]
        benchmark_value == args[1][k]
        month_value == args[2][month_name][k]
    IN  /\ entry["difference"] = month_value - benchmark_value
        /\ entry["ratio"] =
               (IF benchmark_value = 0 THEN Fx(1) ELSE DivFix(month_value, benchmark_value))

\* C18 as stated: every month has, for every key present in both mappings, an
\* entry with difference = month - benchmark and ratio = month / benchmark,
\* the ratio being 1.0 when the benchmark value is 0.
C18_EntryForEveryCommonKey ==
    Returned("comparison_with_benchmark") =>
        /\ DOMAIN ret["monthly_comparisons"] = DOMAIN args[2]
        /\ \A month_name \in DOMAIN args[2] :
              \A k \in CommonKeys(month_name) :
                 /\ k \in DOMAIN ComparisonsOf(month_name)
                 /\ EntryAsStated(month_name, k)

\* C18 amended: every month has an entry exactly for the keys present in both
\* mappings whose benchmark value is not 0, with difference = month - benchmark
\* and ratio = month / benchmark; a key whose benchmark value is 0 has no entry.
C18_EntryForNonZeroBenchmark ==
    Returned("comparison_with_benchmark") =>
        /\ DOMAIN ret["monthly_comparisons"] = DOMAIN args[2]
        /\ \A month_name \in DOMAIN args[2] :
              /\ DOMAIN ComparisonsOf(month_name) =
                     {k \in CommonKeys(month_name) : args[1][k] # 0}
              /\ \A k \in DOMAIN ComparisonsOf(month_name) : EntryAsStated(month_name, k)

\* a month compared on two common keys, one of them with benchmark value 0
C18_Witness ==
    /\ Returned("comparison_with_benchmark")
    /\ "January" \in DOMAIN args[2]
    /\ CommonKeys("January") = {"actual_load", "actual_temperature"}
    /\ args[1]["actual_load"] = 0
    /\ args[1]["actual_temperature"] = Fx(0 - 20)
    /\ DOMAIN ComparisonsOf("January") = {"actual_temperature"}
    /\ ComparisonsOf("January")["actual_temperature"]["ratio"] = Dec(0 - 25, 10)

-----------------------------------------------------------------------------
(* Missing keys of the benchmark consumption (SpecBenchmark) *)

\* the keys that carry an actual operating value
ActualKeys ==
    {"actual_load", "actual_temperature", "actual_pressure", "actual_humidity",
     "actual_steam_temp", "actual_steam_pressure", "actual_calorific_value",
     "actual_sea_temperature"}

ResultKeys ==
    Factors \cup {"comprehensive", "basic_coal_consumption", "correction_factor",
                  "benchmark_coal_consumption", "total_correction_factor"}

\* C19: with empty settings the benchmark consumption returns a complete
\* result for any subset of parameter keys, and when no actual_* key and no
\* heating_load key is supplied every correction factor and the comprehensive
\* factor are 1.0, so the benchmark consumption equals the basic consumption.
C19_MissingKeysGiveUnity ==
    (Returned("benchmark_coal_consumption") /\ args[2] = <<>>) =>
        /\ ~Raised(ret)
        /\ DOMAIN ret = ResultKeys
        /\ (DOMAIN args[1] \cap (ActualKeys \cup {"heating_load"}) = {}) =>
              /\ \A f \in Factors \cup {"comprehensive"} : ret[f] = Fx(1)
              /\ ret["benchmark_coal_consumption"] = ret["basic_coal_consumption"]

-----------------------------------------------------------------------------
(* Properties of the validation (SpecValidate) *)

\* a validated value is a float inside the limits of its key
InsideLimits(key, value) ==
    /\ value["kind"] = "float"
    /\ Len(LimitsOf(key)[1]) > 0 => value["num"] >= LimitsOf(key)[1][1]
    /\ Len(LimitsOf(key)[2]) > 0 => value["num"] <= LimitsOf(key)[2][1]

\* C20: validate_parameters never rejects a parameter set: for any supplied
\* value every recognised field of the result lies inside its valid range,
\* operation_mode is one of the four modes, and unknown keys pass through
\* unchanged.
C20_ValidatedInsideRanges ==
    Returned("validate_parameters") =>
        /\ ~Raised(ret)
        /\ DOMAIN ret = DOMAIN args[1]
        /\ \A key \in DOMAIN ret :
              IF key \in NumericKeys THEN InsideLimits(key, ret[key])
              ELSE IF key = "operation_mode"
                   THEN ret[key]["kind"] = "str" /\ ret[key]["text"] \in valid_modes
                   ELSE ret[key] = args[1][key]

-----------------------------------------------------------------------------
(* Properties of the calls on dict objects (SpecCalls) *)

\* C21: no calculation or validation call mutates its input: every mapping
\* that exists before a call holds the same keys and values after it.
C21_InputsUnchanged ==
    [][\A id \in 1..Len(store) : store'[id] = store[id]]_vars

\* a sweep of three points over actual_load has returned: the caller's params
\* are still empty and the three values were written to three copies
C21_Witness ==
    /\ pc = "done"
    /\ op = "coal_consumption_sensitivity"
    /\ args = <<1, 2, "actual_load", 0, Fx(100), 3>>
    /\ store[1] = <<>>
    /\ Len(store) = 5
    /\ store[5] = [actual_load |-> Fx(100)]

-----------------------------------------------------------------------------
(* Further properties of the correction functions (SpecFactors) *)

\* C22: the temperature correction is 1 + 0.002 x (actual - base) clamped to
\* [0.95, 1.05]; for actual 30 and base 25 it is 1.01.
C22_TemperatureFormula ==
    Returned("temperature") =>
        /\ ret = Max(Dec(95, 100),
                     Min(Dec(105, 100), Fx(1) + MulFix(args[1] - args[2], Dec(2, 1000))))
        /\ args = <<Fx(30), Fx(25)>> => ret = Dec(101, 100)

\* the temperature correction for 30 against 25 degrees has returned
C22_Witness ==
    /\ Returned("temperature")
    /\ args = <<Fx(30), Fx(25)>>
    /\ ret = Dec(101, 100)

\* C28: the load factor is never below 1.0, for zero, negative and positive
\* loads: the part [0.8, 1.0) of its band is not reached.
C28_LoadFactorAtLeastOne ==
    Returned("load_factor") => ret >= Fx(1)

\* the load factor just below the no-penalty region, ratio 60/100
C28_Witness ==
    /\ Returned("load_factor")
    /\ args = <<Fx(60), Fx(100)>>
    /\ ret = Dec(103, 100)

-----------------------------------------------------------------------------
(* The sea-temperature factor (SpecBenchmark) *)

\* the mapping m without the keys in ks
Without(m, ks) == [k \in DOMAIN m \ ks |-> m[k]]

SeaTemperatureEnabled ==
    /\ Get(args[2], "enable_sea_temperature_correction", FALSE)
    /\ "base_sea_temperature" \in DOMAIN args[1]

\* C24: the sea_temperature factor differs from 1.0 only when the settings
\* enable it and params contain base_sea_temperature; otherwise it is 1.0 and
\* the comprehensive factor is what it is without any sea temperature at all.
C24_SeaTemperatureOptIn ==
    (pc = "done" /\ op \in {"comprehensive_correction", "benchmark_coal_consumption"}) =>
        /\ ret["sea_temperature"] # Fx(1) => SeaTemperatureEnabled
        /\ ~SeaTemperatureEnabled =>
              /\ ret["sea_temperature"] = Fx(1)
              /\ ret["comprehensive"] =
                     calculate_comprehensive_correction(
                         Without(args[1], {"actual_sea_temperature", "base_sea_temperature"}),
                         args[2])["comprehensive"]

\* sea-temperature correction enabled, but only the actual sea temperature is
\* supplied: the factor stays 1.0
C24_Witness ==
    /\ Returned("comprehensive_correction")
    /\ args = <<[actual_sea_temperature |-> Fx(40)],
                [enable_sea_temperature_correction |-> TRUE]>>
    /\ ret["sea_temperature"] = Fx(1)
    /\ ret["comprehensive"] = Fx(1)

\* the result of a mode is the benchmark consumption for the caller's params
\* with the given actual_load and heating_load
ModeResultIs(mode, actual_load, heating_load) ==
    ret[mode] =
        calculate_benchmark_coal_consumption(
            Put(Put(Put(store[args[1]], "operation_mode", mode), "actual_load", actual_load),
                "heating_load", heating_load),
            store[args[2]])

\* the caller's base_load and heating_load, with the fallback used when absent
CallerBaseLoad == Get(store[args[1]], "base_load", Fx(100))

CallerHeatingLoad(default) == Get(store[args[1]], "heating_load", default)

\* what is the same in C23 as stated and as amended: the four entries, and the
\* overrides of peak, low and heating
ModeOverrides ==
    /\ DOMAIN ret = {"normal", "peak", "low", "heating"}
    /\ ModeResultIs("peak", MulFix(CallerBaseLoad, Dec(11, 10)), 0)
    /\ ModeResultIs("low", MulFix(CallerBaseLoad, Dec(5, 10)), 0)
    /\ "heating_load" \in DOMAIN store[args[1]] =>
          ModeResultIs("heating", MulFix(CallerBaseLoad, Dec(8, 10)),
                       MulFix(store[args[1]]["heating_load"], Dec(12, 10)))

\* C23 as stated: the four entries with the overrides of peak, low and heating,
\* and normal evaluated with the caller's own load and heating values.
C23_NormalKeepsCallerLoad ==
    Returned("coal_consumption_by_operation_mode") =>
        /\ ModeOverrides
        /\ ret["normal"] =
               calculate_benchmark_coal_consumption(store[args[1]], store[args[2]])

\* C23 amended: as stated for peak, low and heating (the heating mode taking
\* 1.2 x 50 when the caller has no heating_load); normal has actual_load =
\* base_load and the caller's heating_load (0 when absent).
C23_NormalAtBaseLoad ==
    Returned("coal_consumption_by_operation_mode") =>
        /\ ModeOverrides
        /\ ModeResultIs("heating", MulFix(CallerBaseLoad, Dec(8, 10)),
                        MulFix(CallerHeatingLoad(Fx(50)), Dec(12, 10)))
        /\ ModeResultIs("normal", CallerBaseLoad, CallerHeatingLoad(0))

\* a caller running at 20 % against a base load of 50 %, heating 30 %: normal is
\* evaluated at the base load, peak without heating, heating with 36 %
C23_Witness ==
    /\ Returned("coal_consumption_by_operation_mode")
    /\ store[args[1]] = [actual_load |-> Fx(20), base_load |-> Fx(50), heating_load |-> Fx(30)]
    /\ store[args[2]] = <<>>
    /\ ret["normal"]["load_factor"] = Fx(1)
    /\ ret["peak"]["heating"] = Fx(1)
    /\ ret["heating"]["heating"] < ret["normal"]["heating"]

-----------------------------------------------------------------------------
(* Properties of the rates for monthly data (SpecMonthly) *)

MonthOverrideKeys ==
    {"unit_load_rate", "local_temperature", "sea_water_temperature", "coal_heat_value"}

\* the mapping m restricted to the keys in ks
Restricted(m, ks) == [k \in DOMAIN m \cap ks |-> m[k]]

\* the rate of the benchmark calculation on a parameter set
RateOf(params) ==
    calculate_benchmark_coal_consumption(params, args[3])["benchmark_coal_consumption"]

\* C25: the rate of a month is the benchmark calculation on the benchmark's
\* baseline fields with actual_load, actual_temperature, actual_sea_temperature
\* and actual_calorific_value from the month, each falling back to the
\* benchmark's value; no other field of the month changes the rate.
C25_MonthRate ==
    Returned("coal_consumption_for_monthly_data") =>
        /\ DOMAIN ret["monthly_coal_consumption"] = DOMAIN args[2]
        /\ \A month_name \in DOMAIN args[2] :
              LET month == args[2][month_name]
                  baseline == benchmark_params_of(args[1])
                  overridden ==
                      [k \in DOMAIN baseline |->
                          CASE k = "actual_load" /\ "unit_load_rate" \in DOMAIN month ->
                                  month["unit_load_rate"]
                            [] k = "actual_temperature" /\ "local_temperature" \in DOMAIN month ->
                                  month["local_temperature"]
                            [] k = "actual_sea_temperature"
                                  /\ "sea_water_temperature" \in DOMAIN month ->
                                  month["sea_water_temperature"]
                            [] k = "actual_calorific_value" /\ "coal_heat_value" \in DOMAIN month ->
                                  month["coal_heat_value"]
                            [] OTHER -> baseline[k]]
              IN  /\ ret["monthly_coal_consumption"][month_name] = RateOf(overridden)
                  /\ ret["monthly_coal_consumption"][month_name] =
                         RateOf(month_params_of(args[1], Restricted(month, MonthOverrideKeys)))

\* a month with a lower load and a label the calculation does not read: its
\* rate is above the benchmark rate
C25_Witness ==
    /\ Returned("coal_consumption_for_monthly_data")
    /\ args[1] = [unit_load_rate |-> Fx(80)]
    /\ "January" \in DOMAIN args[2]
    /\ args[2]["January"] = [unit_load_rate |-> Fx(40), coal_consumption_rate |-> Fx(300)]
    /\ args[3] = <<>>
    /\ ret["monthly_coal_consumption"]["January"] > ret["benchmark_coal_consumption"]

\* the value the benchmark calculation uses for a label of the benchmark data
BenchmarkValue(k) ==
    CASE k = "unit_load_rate" -> BenchmarkLoad(args[1])
      [] k = "local_temperature" -> BenchmarkTemperature(args[1])
      [] k = "sea_water_temperature" -> BenchmarkSeaTemperature(args[1])
      [] k = "coal_heat_value" -> BenchmarkHeatValue(args[1])

\* C30: for any settings the benchmark rate is the uncorrected basic
\* consumption for the benchmark's heat value at efficiency 0.9, and a month
\* whose four values equal the benchmark's, or are absent, has that rate.
C30_BenchmarkRateUncorrected ==
    Returned("coal_consumption_for_monthly_data") =>
        /\ ret["benchmark_coal_consumption"] =
               calculate_basic_coal_consumption(Get(args[1], "power_generation", Fx(1000)),
                                                BenchmarkHeatValue(args[1]), Dec(9, 10))
        /\ \A month_name \in DOMAIN args[2] :
              (\A k \in MonthOverrideKeys \cap DOMAIN args[2][month_name] :
                   args[2][month_name][k] = BenchmarkValue(k))
                 => ret["monthly_coal_consumption"][month_name] =
                        ret["benchmark_coal_consumption"]

\* benchmark data at 80 % load and 30 degrees with sea-temperature correction
\* enabled, and a month that repeats these values
C30_Witness ==
    /\ Returned("coal_consumption_for_monthly_data")
    /\ args[1] = [unit_load_rate |-> Fx(80), local_temperature |-> Fx(30),
                  sea_water_temperature |-> Fx(10)]
    /\ "January" \in DOMAIN args[2]
    /\ args[2]["January"] = [unit_load_rate |-> Fx(80), local_temperature |-> Fx(30)]
    /\ args[3] = [enable_sea_temperature_correction |-> TRUE]
    /\ ret["monthly_coal_consumption"]["January"] = ret["benchmark_coal_consumption"]
    /\ ret["benchmark_coal_consumption"] = calculate_basic_coal_consumption(Fx(1000), Fx(4854), Dec(9, 10))

-----------------------------------------------------------------------------
(* Properties of the handler (SpecHandler) *)

DerivedKeys ==
    {"actual_load", "actual_temperature", "actual_pressure", "actual_humidity",
     "actual_calorific_value", "total_load"}

\* C26: get_parameters_for_calculation never fails for missing keys: for any
\* user_input it returns a parameter set in which actual_load,
\* actual_temperature, actual_pressure, actual_humidity, actual_calorific_value
\* and total_load are defined.
C26_NeverFailsForMissingKeys ==
    (pc = "done" /\ op = "get_parameters_for_calculation") =>
        /\ ~Raised(ret)
        /\ DerivedKeys \subseteq DOMAIN store[ret["object"]]

\* C27: get_user_input(overrides) returns validate_parameters of the defaults
\* merged with the overrides, the override winning; and no sequence of calls
\* and of changes to returned mappings changes the stored defaults.
C27_DefaultsStable ==
    /\ []((pc = "done" /\ op = "get_user_input") =>
             store[ret["object"]] = validate_parameters(args[1] @@ store[1]))
    /\ [][store'[1] = store[1]]_vars

\* an override of base_load has won over the default, after a caller changed
\* the base_load of a copy of the defaults it had been handed
C27_Witness ==
    /\ pc = "done"
    /\ op = "get_user_input"
    /\ Len(store) = 3
    /\ Get(store[1], "base_load", None) = Num(Fx(100))
    /\ Get(store[2], "base_load", None) = Num(Fx(60))
    /\ args[1] = [base_load |-> Num(Fx(50)), operation_mode |-> Str("peak")]
    /\ store[3]["base_load"] = Num(Fx(50))
    /\ store[3]["efficiency"] = Num(Dec(9, 10))

-----------------------------------------------------------------------------
(* Validation applied twice (SpecValidate) *)

\* C29: validate_parameters is idempotent: validating a validated parameter
\* set gives the validated set again, whatever the type of the supplied
\* values.
C29_ValidateIdempotent ==
    Returned("validate_parameters") => validate_parameters(ret) = ret

====
